---- MODULE Spec2Model ----
(***************************************************************************)
(* Katana USB audio driver: the operation gate of katana_usb_audio.c       *)
(* (katana_enter_operation / katana_exit_operation against                 *)
(* katana_usb_disconnect), the PCM operations of pcm.c that run behind it, *)
(* and the volume control of control.c.                                    *)
(*                                                                         *)
(* The specifications share the variables:                                 *)
(*   SpecGate  the gate alone, NumOps concurrent callers and the           *)
(*             disconnect, every atomic access one step;                   *)
(*   Spec      one control context issuing the PCM operations (the PCM     *)
(*             core serialises a substream's operations) against the       *)
(*             disconnect;                                                 *)
(*   SpecHw    katana_pcm_hw_params applied to a grid of parameters;       *)
(*   SpecStream the trigger commands against the completion handlers of    *)
(*             the data URBs and of the sync URB, every status and every   *)
(*             outcome of usb_submit_urb;                                  *)
(*   SpecFill  the refill of completed data URBs while the application     *)
(*             writes;                                                     *)
(*   SpecFb    the sync URB's handler on feedback packets of every kind.   *)
(*   SpecPace  feedback that differs from the nominal rate, across a stop  *)
(*             and a new start;                                            *)
(*   SpecRing  the cursors of the ring buffer at 48 kHz and at 96 kHz;     *)
(*   SpecTeardown  hw_free, close and a new hw_params against the          *)
(*             completion handlers;                                        *)
(*   SpecGateLive  SpecGate with a disconnect that keeps running;          *)
(*   SpecDesc  a stream set up again at the other rate, with feedback at   *)
(*             the edges of the accepted range;                            *)
(*   SpecVol   the volume control of control.c.                            *)
(* The USB core gives back one URB at a time (cb is the handler that is    *)
(* running); a handler is split where it takes or releases data->lock and  *)
(* between an unlocked read and the call that depends on it.               *)
(***************************************************************************)
EXTENDS Integers, FiniteSets, Sequences, TLC

\* ------------------------------------------------------------------ bounds
\* Number of concurrent callers of the gate in SpecGate.
NumOps == 3

Threads == 1..NumOps
\* The control context of Spec and SpecHw.
Ctl == 1

VARIABLES
    \* katana_usb_audio.c, file scope
    card,                   \* card != NULL
    disconnect_in_progress, \* atomic_t, 0 or 1
    active_operations,      \* atomic_t
    completion_done,        \* disconnect_completion.done
    \* katana_usb_disconnect: position, and how its step 3 ended ("none" not
    \* yet, "skipped" active_operations was 0, "completed", "timeout")
    dpc,
    wait_result,
    \* how many callers were inside the gate when step 1 set the flag
    in_at_mark,
    \* callers: position, operation, result of the last call
    pc,
    op,
    ret,
    \* per call: the two values katana_enter_operation read from
    \* disconnect_in_progress (-1 = not read), and the call's net change of
    \* active_operations; late: the call began after the disconnect had set
    \* disconnect_in_progress
    chk1,
    chk2,
    contrib,
    late,
    \* struct katana_pcm_data of the one playback substream
    priv,                   \* runtime->private_data != NULL
    usb_dev_valid,
    cfg,                    \* buffer_size, period_size, period_bytes, channels, rate, format
    hw_ptr,
    last_period_hw_ptr,
    read_ptr,
    running,
    stream_started,
    urbs,                   \* data->urbs: "null", "valid", or "dangling" (freed, not cleared)
    num_urbs,
    urb_buffer_size,
    sync_inflight,          \* the sync URB is submitted and has not completed
    data_inflight,          \* the data URBs submitted and not completed
    dma_bytes,              \* runtime->dma_bytes, 0 = no ALSA buffer
    \* the device: selected altsetting of the streaming interface and the
    \* sampling frequency last set by SET_CUR (0 = none)
    altsetting,
    dev_rate,
    \* the PCM core: state of the substream, and the parameters and result
    \* of the last hw_params request
    alsa_state,
    hw_in,
    \* the USB core: the data URBs queued on the OUT endpoint in the order of
    \* their submission (an endpoint gives its URBs back in that order), the
    \* URBs usb_unlink_urb has cancelled and that are not yet given back,
    \* and the completion handler that is running (one at a time)
    queue,
    unlinked,
    cb,
    \* katana_urb_complete's static urb_count, modulo num_urbs
    urb_count,
    \* per data URB and packet: what the packet's part of the transfer buffer
    \* holds (Raw as allocated, Silence, or n >= 1 for audio copied in the
    \* handler of the n-th completion), and iso_frame_desc[k].length in frames
    buf,
    pkt_len,
    \* runtime->control->appl_ptr % buffer_size
    appl_pos,
    \* the frames the application wrote since prepare that no refill has
    \* copied yet (not a field of the driver)
    backlog,
    \* since the cursors were last zeroed: the frames the completions added
    \* to hw_ptr, and the frames the refills moved read_ptr by (not fields
    \* of the driver)
    played,
    drained,
    \* feedback_value, feedback_samples, feedback_count, feedback_average,
    \* feedback_valid; since_start (not a field of the driver) records that
    \* a packet was accepted since the last trigger(START)
    fb,
    \* the completions the USB core has delivered (at most MaxFills)
    fills,
    \* control.c, file scope: katana_vol_min, katana_vol_max, katana_vol_res,
    \* katana_vol_range_initialized; dev is the range the device reports,
    \* sent the raw values the last control call passed to SET_CUR, result
    \* and info_max what it returned
    volume

gateVars == <<card, disconnect_in_progress, active_operations, completion_done,
              dpc, wait_result, in_at_mark>>
callVars == <<pc, op, ret, chk1, chk2, contrib, late>>

pcmVars  == <<priv, usb_dev_valid, cfg, hw_ptr, last_period_hw_ptr, read_ptr,
              running, stream_started, urbs, num_urbs, urb_buffer_size,
              sync_inflight, data_inflight, dma_bytes>>
devVars  == <<altsetting, dev_rate, volume>>
coreVars == <<alsa_state, hw_in>>
usbVars  == <<queue, unlinked, cb>>
fillVars == <<urb_count, buf, pkt_len, appl_pos, backlog, played, drained, fb, fills>>
strVars  == <<usbVars, fillVars>>

vars == <<gateVars, callVars, pcmVars, devVars, coreVars, strVars>>

\* -------------------------------------------------------------------- gate

\* A gate whose checks never refuse.
EnterNeverBlocked(flag) == FALSE

\* atomic_read(&disconnect_in_progress) as a condition (lines 48 and 55).
EnterBlocked(flag) == flag # 0

\* The first check of katana_enter_operation, made as the call starts: the
\* caller t runs operation o.
EnterFirstCheck(t, o) ==
    /\ pc[t] = "idle"
    /\ op' = [op EXCEPT ![t] = o]
    /\ chk1' = [chk1 EXCEPT ![t] = disconnect_in_progress]
    /\ chk2' = [chk2 EXCEPT ![t] = -1]
    /\ contrib' = [contrib EXCEPT ![t] = 0]
    /\ late' = [late EXCEPT ![t] = (dpc # "idle")]
    /\ IF EnterBlocked(disconnect_in_progress)
         THEN /\ pc' = [pc EXCEPT ![t] = "idle"]
              /\ ret' = [ret EXCEPT ![t] = "ENODEV"]
         ELSE /\ pc' = [pc EXCEPT ![t] = "inc"]
              /\ ret' = [ret EXCEPT ![t] = "pending"]

\* atomic_inc(&active_operations)
EnterInc(t) ==
    /\ pc[t] = "inc"
    /\ active_operations' = active_operations + 1
    /\ contrib' = [contrib EXCEPT ![t] = @ + 1]
    /\ pc' = [pc EXCEPT ![t] = "check2"]
    /\ UNCHANGED <<card, disconnect_in_progress, completion_done, dpc, wait_result, in_at_mark>>
    /\ UNCHANGED <<op, ret, chk1, chk2, late>>
    /\ UNCHANGED <<pcmVars, devVars, coreVars, strVars>>

\* The double check after the increment; a blocked call undoes its increment
\* with atomic_dec (no completion is signalled on this path).
EnterSecondCheck(t) ==
    /\ pc[t] = "check2"
    /\ chk2' = [chk2 EXCEPT ![t] = disconnect_in_progress]
    /\ IF EnterBlocked(disconnect_in_progress)
         THEN /\ active_operations' = active_operations - 1
              /\ contrib' = [contrib EXCEPT ![t] = @ - 1]
              /\ pc' = [pc EXCEPT ![t] = "idle"]
              /\ ret' = [ret EXCEPT ![t] = "ENODEV"]
         ELSE /\ pc' = [pc EXCEPT ![t] = "body"]
              /\ UNCHANGED <<active_operations, contrib, ret>>
    /\ UNCHANGED <<card, disconnect_in_progress, completion_done, dpc, wait_result, in_at_mark>>
    /\ UNCHANGED <<op, chk1, late>>
    /\ UNCHANGED <<pcmVars, devVars, coreVars, strVars>>

\* atomic_dec_and_test(&active_operations)
ExitDecAndTest(t) ==
    /\ pc[t] = "exit"
    /\ active_operations' = active_operations - 1
    /\ contrib' = [contrib EXCEPT ![t] = @ - 1]
    /\ pc' = [pc EXCEPT ![t] = IF active_operations - 1 = 0 THEN "signal" ELSE "idle"]
    /\ UNCHANGED <<card, disconnect_in_progress, completion_done, dpc, wait_result, in_at_mark>>
    /\ UNCHANGED <<op, ret, chk1, chk2, late>>
    /\ UNCHANGED <<pcmVars, devVars, coreVars, strVars>>

\* The last operation out: complete(&disconnect_completion) if a disconnect
\* is in progress.
ExitSignal(t) ==
    /\ pc[t] = "signal"
    /\ completion_done' = IF disconnect_in_progress # 0
                            THEN completion_done + 1
                            ELSE completion_done
    /\ pc' = [pc EXCEPT ![t] = "idle"]
    /\ UNCHANGED <<card, disconnect_in_progress, active_operations, dpc, wait_result, in_at_mark>>
    /\ UNCHANGED <<op, ret, chk1, chk2, contrib, late>>
    /\ UNCHANGED <<pcmVars, devVars, coreVars, strVars>>

\* A caller between a successful katana_enter_operation and the decrement of
\* katana_exit_operation (an operation that does not take the gate never
\* counts).
InGate(t) == pc[t] \in {"body", "urbs", "exit", "oops"} /\ contrib[t] > 0

\* ------------------------------------------------------------- disconnect

\* if (card) { atomic_set(&disconnect_in_progress, 1);
DisconnectSetFlag ==
    /\ dpc = "idle"
    /\ card
    /\ disconnect_in_progress' = 1
    /\ dpc' = "invalidate"
    /\ in_at_mark' = Cardinality({t \in Threads : InGate(t)})
    /\ UNCHANGED <<card, active_operations, completion_done, wait_result>>
    /\ UNCHANGED <<callVars, pcmVars, devVars, coreVars, strVars>>

\* A disconnect that skips the wait.
DisconnectNeverWaits(active) == FALSE

\* if (atomic_read(&active_operations) > 0)
DisconnectMustWait(active) == active > 0

\* Step 3, the read of active_operations.
DisconnectReadActive ==
    /\ dpc = "read_active"
    /\ dpc' = IF DisconnectMustWait(active_operations) THEN "reinit" ELSE "freeing"
    /\ wait_result' = IF DisconnectMustWait(active_operations) THEN wait_result ELSE "skipped"
    /\ UNCHANGED <<card, disconnect_in_progress, active_operations, completion_done, in_at_mark>>
    /\ UNCHANGED <<callVars, pcmVars, devVars, coreVars, strVars>>

\* reinit_completion(&disconnect_completion)
DisconnectReinit ==
    /\ dpc = "reinit"
    /\ completion_done' = 0
    /\ dpc' = "wait"
    /\ UNCHANGED <<card, disconnect_in_progress, active_operations, wait_result, in_at_mark>>
    /\ UNCHANGED <<callVars, pcmVars, devVars, coreVars, strVars>>

\* wait_for_completion_timeout returns > 0: a completion was there to take.
DisconnectWaitDone ==
    /\ dpc = "wait"
    /\ completion_done > 0
    /\ completion_done' = completion_done - 1
    /\ wait_result' = "completed"
    /\ dpc' = "freeing"
    /\ UNCHANGED <<card, disconnect_in_progress, active_operations, in_at_mark>>
    /\ UNCHANGED <<callVars, pcmVars, devVars, coreVars, strVars>>

\* A wait without a timeout.
DisconnectWaitsForever == FALSE

\* wait_for_completion_timeout returns 0: 10 s went by with no completion.
DisconnectWaitTimeout ==
    /\ dpc = "wait"
    /\ completion_done = 0
    /\ wait_result' = "timeout"
    /\ dpc' = "freeing"
    /\ UNCHANGED <<card, disconnect_in_progress, active_operations, completion_done, in_at_mark>>
    /\ UNCHANGED <<callVars, pcmVars, devVars, coreVars, strVars>>

\* snd_card_free(card) returns; card = NULL.
DisconnectFreeCard ==
    /\ dpc = "freeing"
    /\ card' = FALSE
    /\ dpc' = "reset_flag"
    /\ UNCHANGED <<disconnect_in_progress, active_operations, completion_done, wait_result, in_at_mark>>
    /\ UNCHANGED <<callVars, pcmVars, devVars, coreVars, strVars>>

\* Step 5: atomic_set(&disconnect_in_progress, 0)
DisconnectResetFlag ==
    /\ dpc = "reset_flag"
    /\ disconnect_in_progress' = 0
    /\ dpc' = "reset_active"
    /\ UNCHANGED <<card, active_operations, completion_done, wait_result, in_at_mark>>
    /\ UNCHANGED <<callVars, pcmVars, devVars, coreVars, strVars>>

\* Step 5: atomic_set(&active_operations, 0)
DisconnectResetActive ==
    /\ dpc = "reset_active"
    /\ active_operations' = 0
    /\ dpc' = "done"
    /\ UNCHANGED <<card, disconnect_in_progress, completion_done, wait_result, in_at_mark>>
    /\ UNCHANGED <<callVars, pcmVars, devVars, coreVars, strVars>>

\* snd_card_free is running.
Tearing == dpc = "freeing"


\* -------------------------------------------------------------------- pcm

\* katana_pcm_playback_hw and the constraint lists
period_bytes_min == 1536
period_bytes_max == 6144
periods_min == 2
periods_max == 8
katana_rates_with_44100 == {44100, 48000, 96000}
katana_rates == {48000, 96000}
katana_channels == 2
SNDRV_PCM_FORMAT_S24_3LE == 32

\* snd_pcm_format_physical_width: S24_3LE is packed, three bytes a sample.
PhysicalWidth(format) == IF format = SNDRV_PCM_FORMAT_S24_3LE THEN 24 ELSE 32

\* data->channels * snd_pcm_format_physical_width(data->format) / 8
FrameSize(channels, format) == (channels * PhysicalWidth(format)) \div 8

\* The fields open zeroes.
NoCfg == [buffer_size |-> 0, period_size |-> 0, period_bytes |-> 0,
          channels |-> 0, rate |-> 0, format |-> 0]
NoHw == [rate |-> 0, period_bytes |-> 0, periods |-> 0, buffer_bytes |-> 0,
         res |-> "none"]

HwRequest(rate, pb, periods, bb) ==
    [rate |-> rate, period_bytes |-> pb, periods |-> periods, buffer_bytes |-> bb,
     res |-> "pending"]

\* The parameters as hw_params stores them (params_buffer_size and
\* params_period_size are the byte sizes in frames).
StoredCfg(in) ==
    [buffer_size  |-> in.buffer_bytes \div FrameSize(katana_channels, SNDRV_PCM_FORMAT_S24_3LE),
     period_size  |-> in.period_bytes \div FrameSize(katana_channels, SNDRV_PCM_FORMAT_S24_3LE),
     period_bytes |-> in.period_bytes,
     channels     |-> katana_channels,
     rate         |-> in.rate,
     format       |-> SNDRV_PCM_FORMAT_S24_3LE]

\* A validation without the check of buffer_bytes against the product.
HwParamsVerdictNoProduct(c, buffer_bytes, periods) ==
    IF c.period_bytes % 6 # 0
      THEN "EINVAL"
    ELSE IF buffer_bytes < 3072 \/ buffer_bytes > 49152
      THEN "EINVAL"
    ELSE "ok"

\* The validation of katana_pcm_hw_params, in the order of the code, on the
\* configuration c it has stored and the request's buffer_bytes and periods.
\* (The products are unsigned int in the code; every request of the model
\* keeps period_bytes * periods far below 2^32, so none wraps.)
HwParamsVerdict(c, buffer_bytes, periods) ==
    LET frame_size == FrameSize(c.channels, c.format)
    IN  IF c.format = SNDRV_PCM_FORMAT_S24_3LE /\ c.channels = 2 /\ frame_size # 6
          THEN "EINVAL"
        ELSE IF c.period_bytes % frame_size # 0
          THEN "EINVAL"
        ELSE IF buffer_bytes # c.period_bytes * periods
          THEN "EINVAL"
        ELSE IF \/ buffer_bytes < period_bytes_min * periods_min
                \/ buffer_bytes > period_bytes_max * periods_max
          THEN "EINVAL"
        ELSE "ok"

\* The constraints katana_pcm_playback_open installs on the runtime; the PCM
\* core refuses a request outside them before it calls hw_params.
HwRefine(in) ==
    /\ in.rate \in katana_rates
    /\ in.periods >= periods_min /\ in.periods <= periods_max
    /\ in.period_bytes >= period_bytes_min /\ in.period_bytes <= period_bytes_max
    /\ in.buffer_bytes >= period_bytes_min * periods_min
    /\ in.buffer_bytes <= period_bytes_max * periods_max

\* A trigger that takes the gate for every command.
ShouldBlockAll(cmd) == TRUE

\* katana_pcm_trigger's switch on cmd: which commands take the gate.
ShouldBlock(cmd) == cmd # "STOP"

TriggerCmds == {"START", "STOP", "PAUSE_PUSH", "PAUSE_RELEASE", "SUSPEND"}

\* Which operations call katana_enter_operation.
Gated(o) ==
    IF o \in TriggerCmds THEN ShouldBlock(o)
    ELSE o \in {"gate", "open", "hw_params", "prepare"}

\* A switch that selects altsetting 1 for both supported rates.
AltsettingOneForAll(rate) ==
    IF rate \in {48000, 96000} THEN 1 ELSE 0

\* katana_pcm_prepare's switch on data->rate; 0 stands for the default branch.
TargetAltsetting(rate) ==
    IF rate = 48000 THEN 1 ELSE IF rate = 96000 THEN 2 ELSE 0

\* data->num_urbs = 6, packets_per_urb = 8
NUM_URBS == 6
PACKETS_PER_URB == 8

\* The data URBs are 0 .. NUM_URBS - 1; the sync URB has the next number.
UrbIds == 0..(NUM_URBS - 1)
SyncUrb == NUM_URBS
Packets == 0..(PACKETS_PER_URB - 1)

\* No completion handler is running.
NoPkt == [len |-> 0, b |-> <<0, 0, 0, 0>>]
NoCb == [urb |-> -1, status |-> "none", pc |-> "none", pkt |-> NoPkt, elapsed |-> FALSE]

\* The feedback fields as kzalloc leaves them.
NoFb == [value |-> 0, samples |-> 0, count |-> 0, average |-> 0, valid |-> 0,
         since_start |-> FALSE]

\* Contents of a packet's part of a transfer buffer: as usb_alloc_coherent
\* returned it, and after memset(.., 0, ..).
Raw == -1
Silence == 0

\* The same value in every packet of every data URB.
AllPackets(v) == [u \in UrbIds |-> [k \in Packets |-> v]]

\* The states in which the PCM core calls each operation of the substream.
Admissible(o, st) ==
    CASE o = "open"          -> st = "CLOSED"
      [] o = "hw_params"     -> st \in {"OPEN", "SETUP", "PREPARED"}
      [] o = "hw_free"       -> st \in {"OPEN", "SETUP", "PREPARED"}
      [] o = "close"         -> st \in {"OPEN", "SETUP", "PREPARED"}
      [] o = "prepare"       -> st \in {"SETUP", "PREPARED"}
      [] o = "START"         -> st = "PREPARED"
      [] o = "STOP"          -> st \in {"RUNNING", "PAUSED"}
      [] o = "PAUSE_PUSH"    -> st = "RUNNING"
      [] o = "PAUSE_RELEASE" -> st = "PAUSED"
      [] o = "SUSPEND"       -> st = "RUNNING"
      [] OTHER               -> FALSE

PcmOps == {"open", "prepare", "hw_free", "close"} \cup TriggerCmds

\* A call of the control context starts: a gated operation makes the first
\* check of katana_enter_operation, the others go straight to their body.
BeginCall(o) ==
    IF Gated(o)
      THEN EnterFirstCheck(Ctl, o)
      ELSE /\ pc[Ctl] = "idle"
           /\ op' = [op EXCEPT ![Ctl] = o]
           /\ pc' = [pc EXCEPT ![Ctl] = "body"]
           /\ ret' = [ret EXCEPT ![Ctl] = "pending"]
           /\ chk1' = [chk1 EXCEPT ![Ctl] = -1]
           /\ chk2' = [chk2 EXCEPT ![Ctl] = -1]
           /\ contrib' = [contrib EXCEPT ![Ctl] = 0]
           /\ late' = [late EXCEPT ![Ctl] = (dpc # "idle")]

PcmCall(o) ==
    /\ card
    /\ Admissible(o, alsa_state)
    /\ BeginCall(o)
    /\ UNCHANGED <<gateVars, pcmVars, devVars, coreVars, strVars>>

\* katana_pcm_hw_params is called on the request in.
HwParamsCall(in) ==
    /\ card
    /\ Admissible("hw_params", alsa_state)
    /\ BeginCall("hw_params")
    /\ hw_in' = IF ret'[Ctl] = "ENODEV" THEN [in EXCEPT !.res = "ENODEV"] ELSE in
    /\ alsa_state' = IF ret'[Ctl] = "ENODEV" THEN "OPEN" ELSE alsa_state
    /\ UNCHANGED <<gateVars, pcmVars, devVars, strVars>>

\* The request in is outside the constraints of open: the PCM core fails it
\* with -EINVAL and katana_pcm_hw_params is not called.
HwParamsRefused(in) ==
    /\ card
    /\ Admissible("hw_params", alsa_state)
    /\ pc[Ctl] = "idle"
    /\ op' = [op EXCEPT ![Ctl] = "hw_refine"]
    /\ ret' = [ret EXCEPT ![Ctl] = "EINVAL"]
    /\ hw_in' = [in EXCEPT !.res = "EINVAL"]
    /\ alsa_state' = "OPEN"
    /\ UNCHANGED <<pc, chk1, chk2, contrib, late>>
    /\ UNCHANGED <<gateVars, pcmVars, devVars, strVars>>

\* ioctl HW_PARAMS: the request is refined against the constraints of open
\* before the driver sees it.
PcmCallHwParams(in) ==
    IF HwRefine(in) THEN HwParamsCall(in) ELSE HwParamsRefused(in)

\* The operation returns r: a gated one goes on to katana_exit_operation.
Return(r) ==
    /\ pc' = [pc EXCEPT ![Ctl] = IF Gated(op[Ctl]) THEN "exit" ELSE "idle"]
    /\ ret' = [ret EXCEPT ![Ctl] = r]
    /\ UNCHANGED <<op, chk1, chk2, contrib, late>>

InBody(o) == pc[Ctl] = "body" /\ op[Ctl] = o

\* katana_pcm_playback_open after the gate. alloc: "ok", "ENOMEM" (kzalloc
\* fails) or "ENODEV" (katana_find_audio_endpoint fails).
PlaybackOpen(alloc) ==
    /\ InBody("open")
    /\ IF alloc = "ok"
         THEN /\ priv' = TRUE
              /\ usb_dev_valid' = 1
              /\ cfg' = NoCfg
              /\ hw_ptr' = 0 /\ last_period_hw_ptr' = 0 /\ read_ptr' = 0
              /\ running' = 0 /\ stream_started' = 0
              /\ urbs' = "null" /\ num_urbs' = 0 /\ urb_buffer_size' = 0
              /\ sync_inflight' = FALSE /\ data_inflight' = {}
              /\ alsa_state' = "OPEN"
              /\ fb' = NoFb
              /\ played' = 0 /\ drained' = 0
              /\ UNCHANGED dma_bytes
         ELSE UNCHANGED <<pcmVars, alsa_state, fb, played, drained>>
    /\ Return(alloc)
    /\ UNCHANGED <<gateVars, devVars, hw_in>>
    /\ UNCHANGED <<usbVars, urb_count, buf, pkt_len, appl_pos, backlog, fills>>

\* A free path that does not cancel: the URBs stay with the USB core.
LeaveUrbs == UNCHANGED <<sync_inflight, data_inflight, queue, unlinked>>

\* katana_free_urb_buffers: nothing if data->urbs is NULL; otherwise every
\* URB is killed (usb_kill_urb returns once it has completed) and freed.
KillUrbs ==
    \* usb_kill_urb returns once the URB's handler has returned
    /\ urbs # "null" => cb = NoCb
    /\ sync_inflight' = IF urbs = "null" THEN sync_inflight ELSE FALSE
    /\ data_inflight' = IF urbs = "null" THEN data_inflight ELSE {}
    /\ queue' = IF urbs = "null" THEN queue ELSE <<>>
    /\ unlinked' = IF urbs = "null" THEN unlinked ELSE {}

\* katana_free_urb_buffers: the transfer buffers are gone
FreeUrbBuffers ==
    /\ KillUrbs
    /\ urbs' = "null"
    /\ buf' = AllPackets(Raw)
    /\ pkt_len' = AllPackets(0)

\* katana_pcm_playback_close
PlaybackClose ==
    /\ InBody("close")
    /\ IF priv
         THEN /\ FreeUrbBuffers
              /\ priv' = FALSE
              /\ usb_dev_valid' = 0
              /\ cfg' = NoCfg
              /\ hw_ptr' = 0 /\ last_period_hw_ptr' = 0 /\ read_ptr' = 0
              /\ running' = 0 /\ stream_started' = 0
              /\ num_urbs' = 0 /\ urb_buffer_size' = 0
              /\ UNCHANGED dma_bytes
         ELSE UNCHANGED <<pcmVars, queue, unlinked, buf, pkt_len>>
    /\ alsa_state' = "CLOSED"
    /\ Return("ok")
    /\ UNCHANGED <<gateVars, devVars, hw_in>>
    /\ UNCHANGED <<cb, urb_count, appl_pos, backlog, played, drained, fb, fills>>

\* katana_free_urb_buffers on the pointers error_cleanup freed and left in
\* place: usb_kill_urb, usb_free_coherent, usb_free_urb and kfree work on
\* freed memory. The kernel may get through it (PlaybackClose, HwFree and
\* HwParams free and clear the pointers), or it stops the calling task with
\* an oops and the call never returns (this action). hw_params has stored the
\* parameters and allocated the pages by then.
FreeAfterFree ==
    /\ pc[Ctl] = "body" /\ op[Ctl] \in {"close", "hw_free", "hw_params"}
    /\ priv /\ urbs = "dangling"
    /\ op[Ctl] = "hw_params" =>
          /\ usb_dev_valid # 0
          /\ HwParamsVerdict(StoredCfg(hw_in), hw_in.buffer_bytes, hw_in.periods) = "ok"
    /\ pc' = [pc EXCEPT ![Ctl] = "oops"]
    /\ cfg' = IF op[Ctl] = "hw_params" THEN StoredCfg(hw_in) ELSE cfg
    /\ dma_bytes' = IF op[Ctl] = "hw_params" THEN hw_in.buffer_bytes ELSE dma_bytes
    /\ stream_started' = IF op[Ctl] = "hw_params" THEN stream_started ELSE 0
    /\ UNCHANGED <<op, ret, chk1, chk2, contrib, late, alsa_state, hw_in>>
    /\ UNCHANGED <<priv, usb_dev_valid, hw_ptr, last_period_hw_ptr, read_ptr, running,
                   urbs, num_urbs, urb_buffer_size, sync_inflight, data_inflight>>
    /\ UNCHANGED <<gateVars, devVars, strVars>>

AllocOutcomes == {"ok", "pages", "array", "pool"}

\* katana_pcm_hw_params after the gate, on the request hw_in. alloc: every
\* allocation succeeds ("ok"), snd_pcm_lib_malloc_pages fails ("pages"), the
\* first kzalloc of katana_alloc_urb_buffers fails ("array"), or a later
\* allocation of it fails ("pool": the arrays are freed, the pointers kept).
HwParams(alloc) ==
    /\ InBody("hw_params")
    /\ LET r == IF ~priv THEN "ENODEV"
                ELSE IF usb_dev_valid = 0 THEN "ENODEV"
                ELSE IF HwParamsVerdict(StoredCfg(hw_in), hw_in.buffer_bytes, hw_in.periods) # "ok"
                  THEN "EINVAL"
                ELSE IF alloc # "ok" THEN "ENOMEM"
                ELSE "ok"
           validated == priv /\ usb_dev_valid # 0 /\ r \in {"ok", "ENOMEM"}
           c == StoredCfg(hw_in)
       IN  /\ cfg' = IF priv /\ usb_dev_valid # 0 THEN c ELSE cfg
           /\ IF validated /\ alloc # "pages"
                THEN /\ KillUrbs
                     /\ urbs' = CASE alloc = "ok"    -> "valid"
                                  [] alloc = "array" -> "null"
                                  [] alloc = "pool"  -> "dangling"
                     /\ num_urbs' = NUM_URBS
                     /\ urb_buffer_size' =
                          PACKETS_PER_URB * ((c.rate \div 1000) * FrameSize(c.channels, c.format))
                     /\ stream_started' = 0
                     /\ dma_bytes' = IF alloc = "ok" THEN hw_in.buffer_bytes ELSE 0
                     \* the new buffers as allocated, the descriptors nominal
                     /\ buf' = AllPackets(Raw)
                     /\ pkt_len' = IF alloc = "ok" THEN AllPackets(c.rate \div 1000)
                                                  ELSE AllPackets(0)
                ELSE /\ UNCHANGED <<urbs, sync_inflight, data_inflight, num_urbs,
                                    urb_buffer_size, stream_started>>
                     /\ UNCHANGED <<queue, unlinked, buf, pkt_len>>
                     /\ dma_bytes' = IF validated THEN 0 ELSE dma_bytes
           /\ hw_in' = [hw_in EXCEPT !.res = r]
           /\ alsa_state' = IF r = "ok" THEN "SETUP" ELSE "OPEN"
           /\ Return(r)
    /\ UNCHANGED <<priv, usb_dev_valid, hw_ptr, last_period_hw_ptr, read_ptr, running>>
    /\ UNCHANGED <<gateVars, devVars>>
    /\ UNCHANGED <<cb, urb_count, appl_pos, backlog, played, drained, fb, fills>>

\* katana_pcm_hw_free. altOk: usb_set_interface(.., 0) succeeds.
HwFree(altOk) ==
    /\ InBody("hw_free")
    /\ IF priv
         THEN /\ stream_started' = 0
              /\ FreeUrbBuffers
              /\ altsetting' = IF altOk THEN 0 ELSE altsetting
              /\ dma_bytes' = 0
         ELSE UNCHANGED <<stream_started, urbs, sync_inflight, data_inflight,
                          altsetting, dma_bytes, queue, unlinked, buf, pkt_len>>
    /\ alsa_state' = "OPEN"
    /\ Return("ok")
    /\ UNCHANGED <<priv, usb_dev_valid, cfg, hw_ptr, last_period_hw_ptr, read_ptr,
                   running, num_urbs, urb_buffer_size>>
    /\ UNCHANGED <<gateVars, dev_rate, volume, hw_in>>
    /\ UNCHANGED <<cb, urb_count, appl_pos, backlog, played, drained, fb, fills>>


\* katana_pcm_prepare after the gate. altOk: usb_set_interface succeeds;
\* rateOk: the SET_CUR control message succeeds. A successful
\* usb_set_interface disables the endpoints of the interface, which takes
\* every URB still queued on them away from the device (their handlers find
\* stream_started = 0 and return at once).
Prepare(altOk, rateOk) ==
    /\ InBody("prepare")
    /\ LET target == TargetAltsetting(cfg.rate)
           r == IF ~priv THEN "ENODEV"
                ELSE IF usb_dev_valid = 0 THEN "ENODEV"
                ELSE IF target = 0 THEN "EINVAL"
                ELSE IF ~altOk THEN "EUSB"
                ELSE IF ~rateOk THEN "EUSB"
                ELSE "ok"
           reset == priv /\ usb_dev_valid # 0 /\ target # 0
           flush == reset /\ altOk
       IN  /\ hw_ptr' = IF reset THEN 0 ELSE hw_ptr
           /\ last_period_hw_ptr' = IF reset THEN 0 ELSE last_period_hw_ptr
           /\ read_ptr' = IF reset THEN 0 ELSE read_ptr
           /\ running' = IF reset THEN 0 ELSE running
           /\ altsetting' = IF reset /\ altOk THEN target ELSE altsetting
           /\ dev_rate' = IF r = "ok" THEN cfg.rate ELSE dev_rate
           /\ sync_inflight' = IF flush THEN FALSE ELSE sync_inflight
           /\ data_inflight' = IF flush THEN {} ELSE data_inflight
           /\ queue' = IF flush THEN <<>> ELSE queue
           /\ unlinked' = IF flush THEN {} ELSE unlinked
           /\ alsa_state' = IF r = "ok" THEN "PREPARED" ELSE alsa_state
           \* snd_pcm_prepare resets appl_ptr after a successful prepare
           /\ appl_pos' = IF r = "ok" THEN 0 ELSE appl_pos
           /\ backlog' = IF r = "ok" THEN 0 ELSE backlog
           /\ played' = IF reset THEN 0 ELSE played
           /\ drained' = IF reset THEN 0 ELSE drained
           /\ Return(r)
    /\ UNCHANGED <<priv, usb_dev_valid, cfg, stream_started, urbs, num_urbs,
                   urb_buffer_size, dma_bytes>>
    /\ UNCHANGED <<gateVars, hw_in, volume>>
    /\ UNCHANGED <<cb, urb_count, buf, pkt_len, fb, fills>>

DataUrbs == 0..(num_urbs - 1)

\* The URB is with the USB core: submitted (or cancelled) and not given back.
Pending(u) ==
    IF u = SyncUrb THEN sync_inflight \/ SyncUrb \in unlinked
    ELSE \E i \in 1..Len(queue) : queue[i] = u

\* The numbers hi .. lo, the reverse of the order of submission.
RangeDown(lo, hi) == [i \in 1..(hi - lo + 1) |-> hi - i + 1]

\* The numbers lo .. hi in order.
Range(lo, hi) == [i \in 1..(hi - lo + 1) |-> lo + i - 1]

\* katana_pcm_trigger(START) after the gate, up to the submission of the
\* sync URB; the spinlock is taken here and held until START returns.
\* ok: usb_submit_urb(data->sync_urb) succeeds (it cannot while the URB is
\* still with the USB core).
TriggerStartBegin(ok) ==
    /\ InBody("START")
    /\ IF ~priv \/ usb_dev_valid = 0
         THEN /\ Return("ENODEV")
              /\ UNCHANGED <<hw_ptr, last_period_hw_ptr, read_ptr, running,
                             stream_started, sync_inflight>>
         ELSE /\ hw_ptr' = 0 /\ last_period_hw_ptr' = 0 /\ read_ptr' = 0
              /\ IF ok /\ ~Pending(SyncUrb)
                   THEN /\ running' = 1 /\ stream_started' = 1
                        /\ sync_inflight' = TRUE
                        /\ pc' = [pc EXCEPT ![Ctl] = "urbs"]
                        /\ UNCHANGED <<op, ret, chk1, chk2, contrib, late>>
                   ELSE /\ running' = 0 /\ stream_started' = 0
                        /\ UNCHANGED sync_inflight
                        /\ Return("EUSB")
    \* START writes none of the feedback fields; a new activation begins
    /\ fb' = IF ~priv \/ usb_dev_valid = 0 THEN fb ELSE [fb EXCEPT !.since_start = FALSE]
    /\ played' = IF ~priv \/ usb_dev_valid = 0 THEN played ELSE 0
    /\ drained' = IF ~priv \/ usb_dev_valid = 0 THEN drained ELSE 0
    /\ UNCHANGED <<priv, usb_dev_valid, cfg, urbs, num_urbs, urb_buffer_size,
                   data_inflight, dma_bytes>>
    /\ UNCHANGED <<gateVars, devVars, coreVars>>
    /\ UNCHANGED <<usbVars, urb_count, buf, pkt_len, appl_pos, backlog, fills>>

\* The loop of katana_pcm_trigger(START) over the data URBs. f is where
\* usb_submit_urb first fails: i + 1 at data URB i, num_urbs + 1 nowhere
\* (a URB that is still with the USB core cannot be submitted). The buffer of
\* every URB the loop reaches is cleared and its descriptors set to
\* rate / 1000 frames before it is submitted.
TriggerStart(f) ==
    /\ pc[Ctl] = "urbs"
    /\ f \in 1..(num_urbs + 1)
    /\ \A u \in DataUrbs : Pending(u) => f <= u + 1
    /\ LET reached == {u \in DataUrbs : u <= f - 1}
           submitted == {u \in DataUrbs : u < f - 1}
           nominal == cfg.rate \div 1000
       IN  /\ buf' = [u \in UrbIds |-> IF u \in reached
                                         THEN [k \in Packets |-> Silence] ELSE buf[u]]
           /\ pkt_len' = [u \in UrbIds |-> IF u \in reached
                                             THEN [k \in Packets |-> nominal] ELSE pkt_len[u]]
           /\ queue' = queue \o Range(0, f - 2)
           /\ IF f = num_urbs + 1
                THEN /\ data_inflight' = data_inflight \cup submitted
                     /\ alsa_state' = "RUNNING"
                     /\ Return("ok")
                     /\ UNCHANGED <<running, stream_started, sync_inflight, unlinked>>
                ELSE \* usb_unlink_urb on the data URBs submitted, then on the
                     \* sync URB; the unlinked URBs are given back later
                     /\ unlinked' = unlinked \cup data_inflight \cup submitted
                                       \cup (IF sync_inflight THEN {SyncUrb} ELSE {})
                     /\ data_inflight' = {}
                     /\ sync_inflight' = FALSE
                     /\ running' = 0 /\ stream_started' = 0
                     /\ UNCHANGED alsa_state
                     /\ Return("EUSB")
    /\ UNCHANGED <<priv, usb_dev_valid, cfg, hw_ptr, last_period_hw_ptr, read_ptr,
                   urbs, num_urbs, urb_buffer_size, dma_bytes>>
    /\ UNCHANGED <<gateVars, devVars, hw_in>>
    /\ UNCHANGED <<cb, urb_count, appl_pos, backlog, played, drained, fb, fills>>

\* katana_pcm_trigger(STOP): no gate; usb_unlink_urb on the sync URB and on
\* every data URB (an URB that is not with the USB core is not affected).
TriggerStop ==
    /\ InBody("STOP")
    /\ IF ~priv \/ usb_dev_valid = 0
         THEN /\ Return("ENODEV")
              /\ UNCHANGED <<running, stream_started, sync_inflight, data_inflight, unlinked>>
         ELSE /\ running' = 0 /\ stream_started' = 0
              /\ unlinked' = unlinked \cup data_inflight
                                \cup (IF sync_inflight THEN {SyncUrb} ELSE {})
              /\ sync_inflight' = FALSE
              /\ data_inflight' = {}
              /\ Return("ok")
    \* snd_pcm_stop sets the state whatever the trigger returns
    /\ alsa_state' = "SETUP"
    /\ UNCHANGED <<priv, usb_dev_valid, cfg, hw_ptr, last_period_hw_ptr, read_ptr,
                   urbs, num_urbs, urb_buffer_size, dma_bytes>>
    /\ UNCHANGED <<gateVars, devVars, hw_in>>
    /\ UNCHANGED <<queue, cb, fillVars>>

\* katana_pcm_trigger(PAUSE_PUSH / PAUSE_RELEASE) after the gate.
TriggerPause(cmd) ==
    /\ cmd \in {"PAUSE_PUSH", "PAUSE_RELEASE"}
    /\ InBody(cmd)
    /\ IF ~priv \/ usb_dev_valid = 0
         THEN /\ Return("ENODEV")
              /\ UNCHANGED <<running, alsa_state>>
         ELSE /\ running' = IF cmd = "PAUSE_PUSH" THEN 0 ELSE 1
              /\ alsa_state' = IF cmd = "PAUSE_PUSH" THEN "PAUSED" ELSE "RUNNING"
              /\ Return("ok")
    /\ UNCHANGED <<priv, usb_dev_valid, cfg, hw_ptr, last_period_hw_ptr, read_ptr,
                   stream_started, urbs, num_urbs, urb_buffer_size,
                   sync_inflight, data_inflight, dma_bytes>>
    /\ UNCHANGED <<gateVars, devVars, hw_in>>
    /\ UNCHANGED strVars

\* katana_pcm_trigger with any other command (the default branches).
TriggerOther ==
    /\ InBody("SUSPEND")
    /\ Return(IF ~priv \/ usb_dev_valid = 0 THEN "ENODEV" ELSE "EINVAL")
    /\ UNCHANGED <<gateVars, pcmVars, devVars, coreVars, strVars>>

\* katana_pcm_invalidate_usb_dev(card): it logs, and writes no field of any
\* katana_pcm_data. The value of usb_dev_valid after it.
katana_pcm_invalidate_usb_dev(valid) == valid

\* Step 2 of katana_usb_disconnect.
DisconnectInvalidate ==
    /\ dpc = "invalidate"
    /\ usb_dev_valid' = katana_pcm_invalidate_usb_dev(usb_dev_valid)
    /\ dpc' = "read_active"
    /\ UNCHANGED <<card, disconnect_in_progress, active_operations,
                   completion_done, wait_result, in_at_mark>>
    /\ UNCHANGED <<priv, cfg, hw_ptr, last_period_hw_ptr, read_ptr, running,
                   stream_started, urbs, num_urbs, urb_buffer_size, sync_inflight,
                   data_inflight, dma_bytes>>
    /\ UNCHANGED <<callVars, devVars, coreVars, strVars>>

Disconnect ==
    \/ DisconnectSetFlag
    \/ DisconnectInvalidate
    \/ DisconnectReadActive
    \/ DisconnectReinit
    \/ DisconnectWaitDone
    \/ DisconnectWaitTimeout
    \/ DisconnectFreeCard
    \/ DisconnectResetFlag
    \/ DisconnectResetActive

\* ---------------------------------------------------------- specifications

\* After probe has registered the card: no disconnect yet, no stream open.
\* ------------------------------------------------------------ volume control

\* The 16 bits of a value on the wire, and the int16_t a 16-bit pattern is.
Wire16(v) == v % 65536
ToInt16(x) == ((x + 32768) % 65536) - 32768

\* volume_data[0] = v & 0xff; volume_data[1] = (v >> 8) & 0xff
LowByte(v) == Wire16(v) % 256
HighByte(v) == (Wire16(v) \div 256) % 256

\* volume_data[0] | (volume_data[1] << 8), stored in an int16_t
Parse16(b0, b1) == ToInt16(b0 + b1 * 256)

\* A range of the volume control, in raw units
VolRange(lo, hi, res) == [min |-> lo, max |-> hi, res |-> res]

\* The fallback values of the driver
FallbackRange == VolRange(-20480, 0, 1)

\* The ranges a device reports in SpecVol: the fallback range, a narrower
\* one in steps of 256, and one with a positive maximum.
VolRanges == {FallbackRange, VolRange(-12800, 0, 256), VolRange(-6400, 6400, 128)}

\* The file-scope variables of control.c before any call, with a device that
\* reports the range dev.
NoVolume(dev) ==
    [katana_vol_min |-> FallbackRange.min, katana_vol_max |-> FallbackRange.max,
     katana_vol_res |-> FallbackRange.res, katana_vol_range_initialized |-> 0,
     dev |-> dev, sent |-> <<>>, result |-> 0, info_max |-> 0]

\* katana_get_volume_range. allocOk: usb_alloc_coherent succeeds (if not, the
\* function returns and changes nothing); minOk, maxOk, resOk: the GET_MIN,
\* GET_MAX, GET_RES requests succeed (if not, the fallback value is taken).
GetVolumeRange(v, allocOk, minOk, maxOk, resOk) ==
    IF ~allocOk THEN v
    ELSE [v EXCEPT
            !.katana_vol_min = IF minOk THEN Parse16(LowByte(v.dev.min), HighByte(v.dev.min))
                               ELSE FallbackRange.min,
            !.katana_vol_max = IF maxOk THEN Parse16(LowByte(v.dev.max), HighByte(v.dev.max))
                               ELSE FallbackRange.max,
            !.katana_vol_res = IF resOk THEN Parse16(LowByte(v.dev.res), HighByte(v.dev.res))
                               ELSE FallbackRange.res,
            !.katana_vol_range_initialized = 1]

\* if (!katana_vol_range_initialized) katana_get_volume_range(..)
EnsureVolumeRange(v, allocOk, minOk, maxOk, resOk) ==
    IF v.katana_vol_range_initialized = 0
      THEN GetVolumeRange(v, allocOk, minOk, maxOk, resOk)
      ELSE v

\* if (raw < min) raw = min; if (raw > max) raw = max;
ClampRaw(raw, lo, hi) ==
    LET r1 == IF raw < lo THEN lo ELSE raw
    IN  IF r1 > hi THEN hi ELSE r1

\* int16_t raw_volume = katana_vol_min + (alsa_steps * katana_vol_res), then
\* the clamp
RawVolume(v, alsa_steps) ==
    ClampRaw(ToInt16(v.katana_vol_min + alsa_steps * v.katana_vol_res),
             v.katana_vol_min, v.katana_vol_max)

\* katana_volume_put with katana_set_hardware_volume_raw. present: the
\* control has its USB device; steps: value.integer.value[0]; a1, a2: the
\* allocation of katana_get_volume_range succeeds in the call made by the
\* put and in the one made by katana_set_hardware_volume_raw; a3: the
\* allocation of volume_data succeeds; m1, m2: the SET_CUR requests for
\* channels 1 and 2 succeed.
VolumePut(present, steps, a1, a2, a3, minOk, maxOk, resOk, m1, m2) ==
    /\ volume' =
         IF ~present THEN [volume EXCEPT !.sent = <<>>, !.result = 0]
         ELSE LET v1 == EnsureVolumeRange(volume, a1, minOk, maxOk, resOk)
                  raw == RawVolume(v1, steps)
                  v2 == EnsureVolumeRange(v1, a2, minOk, maxOk, resOk)
                  wire == Parse16(LowByte(raw), HighByte(raw))
              IN  [v2 EXCEPT
                     !.sent = IF ~a3 THEN <<>>
                              ELSE IF m1 THEN <<wire, wire>> ELSE <<wire>>,
                     !.result = IF a3 /\ m1 /\ m2 THEN 1 ELSE 0]
    /\ UNCHANGED <<gateVars, callVars, pcmVars, altsetting, dev_rate, coreVars, strVars>>

\* katana_volume_info
VolumeInfo(present, allocOk, minOk, maxOk, resOk) ==
    /\ volume' =
         LET v1 == IF present
                     THEN EnsureVolumeRange(volume, allocOk, minOk, maxOk, resOk)
                     ELSE volume
         IN  [v1 EXCEPT
                !.sent = <<>>, !.result = 0,
                !.info_max = (v1.katana_vol_max - v1.katana_vol_min) \div v1.katana_vol_res]
    /\ UNCHANGED <<gateVars, callVars, pcmVars, altsetting, dev_rate, coreVars, strVars>>

\* The state before any call, the volume control apart.
InitDriver ==
    /\ card = TRUE
    /\ disconnect_in_progress = 0
    /\ active_operations = 0
    /\ completion_done = 0
    /\ dpc = "idle"
    /\ wait_result = "none"
    /\ in_at_mark = 0
    /\ pc = [t \in Threads |-> "idle"]
    /\ op = [t \in Threads |-> "none"]
    /\ ret = [t \in Threads |-> "none"]
    /\ chk1 = [t \in Threads |-> -1]
    /\ chk2 = [t \in Threads |-> -1]
    /\ contrib = [t \in Threads |-> 0]
    /\ late = [t \in Threads |-> FALSE]
    /\ priv = FALSE
    /\ usb_dev_valid = 0
    /\ cfg = NoCfg
    /\ hw_ptr = 0 /\ last_period_hw_ptr = 0 /\ read_ptr = 0
    /\ running = 0 /\ stream_started = 0
    /\ urbs = "null" /\ num_urbs = 0 /\ urb_buffer_size = 0
    /\ sync_inflight = FALSE /\ data_inflight = {}
    /\ dma_bytes = 0
    /\ altsetting = 0 /\ dev_rate = 0
    /\ alsa_state = "CLOSED"
    /\ hw_in = NoHw
    /\ queue = <<>> /\ unlinked = {} /\ cb = NoCb
    /\ urb_count = 0
    /\ buf = AllPackets(Raw) /\ pkt_len = AllPackets(0)
    /\ appl_pos = 0
    /\ backlog = 0
    /\ played = 0 /\ drained = 0
    /\ fb = NoFb
    /\ fills = 0

Init == InitDriver /\ volume = NoVolume(FallbackRange)

\* The requests for hw_params the control context of Spec makes: the two
\* extreme supported configurations, an unsupported rate, a period that is
\* not frame aligned, a buffer that is not period_bytes * periods.
HwInputs ==
    { HwRequest(48000, 6144, 8, 49152),
      HwRequest(96000, 1536, 2, 3072),
      HwRequest(44100, 6144, 8, 49152),
      HwRequest(48000, 1540, 2, 3080),
      HwRequest(96000, 1536, 2, 6144) }

\* The gate steps of a caller.
GateStep(t) ==
    \/ EnterInc(t)
    \/ EnterSecondCheck(t)
    \/ ExitDecAndTest(t)
    \/ ExitSignal(t)

\* --------------------------------------------------- completion handlers

\* The number of completions the USB core delivers in a behaviour.
MaxFills == 3

\* The statuses a URB that was not cancelled completes with.
LiveStatuses == {"ok", "EPROTO", "ESHUTDOWN"}

\* case -ENOENT, -ECONNRESET, -ESHUTDOWN of both handlers
CancelStatus(st) == st \in {"ENOENT", "ECONNRESET", "ESHUTDOWN"}

\* data->lock is free: katana_pcm_trigger holds it from the start of START to
\* its return, its other commands take and release it within their step.
LockFree == pc[Ctl] # "urbs"

\* The USB core gives back the data URB at the head of the endpoint's queue
\* and calls katana_urb_complete on it; a URB that usb_unlink_urb cancelled
\* comes back with -ECONNRESET, another with status st.
GiveBackData(st) ==
    /\ cb = NoCb
    /\ queue # <<>>
    /\ fills < MaxFills
    /\ LET u == Head(queue)
       IN  /\ cb' = [NoCb EXCEPT !.urb = u, !.pc = "check",
                                 !.status = IF u \in unlinked THEN "ECONNRESET" ELSE st]
           /\ unlinked' = unlinked \ {u}
           /\ data_inflight' = data_inflight \ {u}
    /\ queue' = Tail(queue)
    /\ fills' = fills + 1
    /\ UNCHANGED <<priv, usb_dev_valid, cfg, hw_ptr, last_period_hw_ptr, read_ptr,
                   running, stream_started, urbs, num_urbs, urb_buffer_size,
                   sync_inflight, dma_bytes>>
    /\ UNCHANGED <<gateVars, callVars, devVars, coreVars>>
    /\ UNCHANGED <<urb_count, buf, pkt_len, appl_pos, backlog, played, drained, fb>>

\* katana_urb_complete: if (!data->stream_started) return; read without the
\* lock.
DataCheck ==
    /\ cb.pc = "check" /\ cb.urb \in UrbIds
    /\ cb' = IF stream_started = 0 THEN NoCb ELSE [cb EXCEPT !.pc = "process"]
    /\ UNCHANGED <<gateVars, callVars, pcmVars, devVars, coreVars>>
    /\ UNCHANGED <<queue, unlinked, fillVars>>

\* The sum over the packets of iso_frame_desc[k].actual_length / frame_size:
\* an OUT packet that completed has sent its length.
RECURSIVE SumTo(_, _)
SumTo(len, k) == IF k < 0 THEN 0 ELSE len[k] + SumTo(len, k - 1)

FramesTransferred(u) == SumTo(pkt_len[u], PACKETS_PER_URB - 1)

\* data->hw_ptr after the completion moved it by frames.
AdvanceHwPtr(ptr, frames, buffer_size) ==
    IF ptr + frames >= buffer_size THEN ptr + frames - buffer_size ELSE ptr + frames

\* katana_urb_complete from spin_lock_irqsave to the end of the switch on
\* urb->status: urb_count++, then on success hw_ptr and the period, on any
\* other status the handler ends.
DataProcess ==
    /\ cb.pc = "process" /\ cb.urb \in UrbIds
    /\ LockFree
    /\ urb_count' = (urb_count + 1) % NUM_URBS
    /\ IF cb.status = "ok"
         THEN LET ptr == AdvanceHwPtr(hw_ptr, FramesTransferred(cb.urb), cfg.buffer_size)
                  elapsed == (ptr \div cfg.period_size) # (last_period_hw_ptr \div cfg.period_size)
              IN  /\ hw_ptr' = ptr
                  /\ last_period_hw_ptr' = IF elapsed THEN ptr ELSE last_period_hw_ptr
                  /\ played' = played + FramesTransferred(cb.urb)
                  /\ cb' = [cb EXCEPT !.pc = "refill", !.elapsed = elapsed]
         ELSE /\ cb' = NoCb
              /\ UNCHANGED <<hw_ptr, last_period_hw_ptr, played>>
    /\ UNCHANGED <<priv, usb_dev_valid, cfg, read_ptr, running, stream_started, urbs,
                   num_urbs, urb_buffer_size, sync_inflight, data_inflight, dma_bytes>>
    /\ UNCHANGED <<gateVars, callVars, devVars, coreVars>>
    /\ UNCHANGED <<queue, unlinked, buf, pkt_len, appl_pos, backlog, drained, fb, fills>>

\* A handler that resubmits whatever the state of the stream.
ResubmitAlways == TRUE

\* The condition under which katana_urb_complete refills and resubmits.
ResubmitData == stream_started # 0 /\ running # 0

\* samples_per_packet of the refill
SamplesPerPacket ==
    IF fb.valid # 0 /\ fb.samples > 0 THEN fb.samples ELSE cfg.rate \div 1000

\* (2^32 - d) / fs for 0 < d < 2^30: the quotient of this_packet_size, an
\* unsigned int, when urb_buffer_size - k * packet_size has wrapped. 2^32 is
\* taken as 4 * 2^30 to stay within the 32-bit signed integers.
WrappedQuotient(d, fs) ==
    4 * (1073741824 \div fs) + (4 * (1073741824 % fs) - d) \div fs

\* this_packet_samples of packet k when every packet is to carry spp frames
ThisPacketSamples(k, spp) ==
    LET fs == FrameSize(cfg.channels, cfg.format)
        packet_size == spp * fs
    IN  IF (k + 1) * packet_size > urb_buffer_size
          THEN (IF k * packet_size <= urb_buffer_size
                  THEN (urb_buffer_size - k * packet_size) \div fs
                  ELSE WrappedQuotient(k * packet_size - urb_buffer_size, fs))
          ELSE spp

\* The offset of a packet is beyond the end of the URB buffer, so that its
\* length has wrapped.
BadDescriptor ==
    \E k \in Packets :
        k * (SamplesPerPacket * FrameSize(cfg.channels, cfg.format)) > urb_buffer_size

\* The frames between read_ptr and the application's position.
AvailableFrames ==
    IF appl_pos >= read_ptr THEN appl_pos - read_ptr
    ELSE cfg.buffer_size - read_ptr + appl_pos

Min(a, b) == IF a < b THEN a ELSE b

\* The descriptor lengths the refill's first loop sets, in frames.
NominalLens == [k \in Packets |-> ThisPacketSamples(k, SamplesPerPacket)]

\* min(len[0] + .. + len[k], cap) for lengths that are not negative, with
\* the sum cut at cap as it is formed (the sum itself is an unsigned int of
\* up to 4 wrapped lengths, below 2^32).
RECURSIVE SumCapped(_, _, _)
SumCapped(len, k, cap) ==
    IF k < 0 THEN 0 ELSE Min(cap, len[k] + SumCapped(len, k - 1, cap))

\* total_samples_needed after the limit to the available frames
TotalSamples == SumCapped(NominalLens, PACKETS_PER_URB - 1, AvailableFrames)

\* samples_copied when the copy loop reaches packet k
CopiedBefore(k) == SumCapped(NominalLens, k - 1, TotalSamples)

\* The copy loop writes packet k.
Copies(k) == TotalSamples > 0 /\ CopiedBefore(k) < TotalSamples

\* The buffer the refill of the completed URB u writes to:
\* data->urb_buffers[urb_count % data->num_urbs]
FillBuffer(u) == urb_count % num_urbs

\* iso_frame_desc[k].length of the completed URB after the refill, in frames
FilledLens ==
    [k \in Packets |-> IF Copies(k)
                         THEN Min(NominalLens[k], TotalSamples - CopiedBefore(k))
                         ELSE NominalLens[k]]

\* The contents of the buffer the refill writes to: the packets the copy
\* loop reaches hold the audio of this completion; with nothing to copy every
\* packet is cleared.
FilledBuf(old) ==
    [k \in Packets |-> IF TotalSamples > 0
                         THEN (IF Copies(k) THEN fills ELSE old[k])
                         ELSE Silence]

\* How the refill ends. With a wrapped length the silence loop clears about
\* 4 GB from the packet's place and the copy loop may write beyond the
\* buffer: the handler faults ("oops") or, if only the copy ran, may go on to
\* a submission that the USB core refuses.
RefillEnds ==
    IF ResubmitData /\ BadDescriptor
      THEN (IF TotalSamples = 0
              THEN {[cb EXCEPT !.pc = "oops"]}
              ELSE {[cb EXCEPT !.pc = "oops"], NoCb})
      ELSE {NoCb}

\* katana_urb_complete from the second spin_lock_irqsave to the end: the
\* refill and the resubmission, if the stream is started and running.
\* sub: usb_submit_urb succeeds (it cannot on a URB that is with the USB
\* core again, nor with a packet length that is negative as an int); its
\* failure is only logged.
DataRefill(sub) ==
    /\ cb.pc = "refill" /\ cb.urb \in UrbIds
    /\ LockFree
    /\ LET u == cb.urb
           x == FillBuffer(u)
       IN  IF ResubmitData
             THEN /\ pkt_len' = [pkt_len EXCEPT ![u] = FilledLens]
                  /\ buf' = [buf EXCEPT ![x] = FilledBuf(buf[x])]
                  /\ read_ptr' = (read_ptr + TotalSamples) % cfg.buffer_size
                  /\ backlog' = backlog - TotalSamples
                  /\ drained' = drained + TotalSamples
                  /\ IF sub /\ ~Pending(u) /\ ~BadDescriptor
                       THEN /\ queue' = Append(queue, u)
                            /\ data_inflight' = data_inflight \cup {u}
                       ELSE UNCHANGED <<queue, data_inflight>>
             ELSE UNCHANGED <<pkt_len, buf, read_ptr, backlog, drained, queue, data_inflight>>
    /\ cb' \in RefillEnds
    /\ UNCHANGED <<priv, usb_dev_valid, cfg, hw_ptr, last_period_hw_ptr, running,
                   stream_started, urbs, num_urbs, urb_buffer_size, sync_inflight,
                   dma_bytes>>
    /\ UNCHANGED <<gateVars, callVars, devVars, coreVars>>
    /\ UNCHANGED <<unlinked, urb_count, appl_pos, played, fb, fills>>

\* A feedback packet: actual_length and the bytes of sync_buffer.
FbPacket(len, b0, b1, b2, b3) == [len |-> len, b |-> <<b0, b1, b2, b3>>]

\* feedback_value as katana_sync_urb_complete parses it
FeedbackValue(pkt) ==
    IF pkt.len = 3 THEN pkt.b[1] + pkt.b[2] * 256 + pkt.b[3] * 65536
    ELSE IF pkt.len = 4
      THEN pkt.b[1] + pkt.b[2] * 256 + pkt.b[3] * 65536 + pkt.b[4] * 16777216
    ELSE 0

\* samples_per_frame = (feedback_value + 8192) >> 14
SamplesPerFrame(value) == (value + 8192) \div 16384

expected_min(rate) == (rate * 9) \div 10000
expected_max(rate) == (rate * 11) \div 10000

\* A handler that takes every packet of 3 bytes or more.
FeedbackAnyValue(pkt, rate) == pkt.len >= 3

\* The packet passes actual_length >= 3 and the range check.
FeedbackAccepted(pkt, rate) ==
    /\ pkt.len >= 3
    /\ SamplesPerFrame(FeedbackValue(pkt)) >= expected_min(rate)
    /\ SamplesPerFrame(FeedbackValue(pkt)) <= expected_max(rate)

\* An update without smoothing: the average is the latest estimate.
FeedbackUpdateLatest(old, pkt) ==
    [value   |-> FeedbackValue(pkt),
     samples |-> SamplesPerFrame(FeedbackValue(pkt)),
     count   |-> old.count + 1,
     average |-> SamplesPerFrame(FeedbackValue(pkt)),
     valid   |-> 1,
     since_start |-> TRUE]

\* The feedback fields after an accepted packet.
FeedbackUpdate(old, pkt) ==
    LET s == SamplesPerFrame(FeedbackValue(pkt))
    IN  [value   |-> FeedbackValue(pkt),
         samples |-> s,
         count   |-> old.count + 1,
         average |-> IF old.count + 1 = 1 THEN s ELSE (7 * old.average + s) \div 8,
         valid   |-> 1,
         since_start |-> TRUE]

\* The USB core gives back the sync URB with the packet pkt and calls
\* katana_sync_urb_complete.
GiveBackSync(st, pkt) ==
    /\ cb = NoCb
    /\ Pending(SyncUrb)
    /\ fills < MaxFills
    /\ cb' = [NoCb EXCEPT !.urb = SyncUrb, !.pc = "check", !.pkt = pkt,
                          !.status = IF SyncUrb \in unlinked THEN "ECONNRESET" ELSE st]
    /\ sync_inflight' = FALSE
    /\ unlinked' = unlinked \ {SyncUrb}
    /\ fills' = fills + 1
    /\ UNCHANGED <<priv, usb_dev_valid, cfg, hw_ptr, last_period_hw_ptr, read_ptr,
                   running, stream_started, urbs, num_urbs, urb_buffer_size,
                   data_inflight, dma_bytes>>
    /\ UNCHANGED <<gateVars, callVars, devVars, coreVars>>
    /\ UNCHANGED <<queue, urb_count, buf, pkt_len, appl_pos, backlog, played, drained, fb>>

\* katana_sync_urb_complete: if (!data->stream_started) return;
SyncCheck ==
    /\ cb.pc = "check" /\ cb.urb = SyncUrb
    /\ cb' = IF stream_started = 0 THEN NoCb ELSE [cb EXCEPT !.pc = "feedback"]
    /\ UNCHANGED <<gateVars, callVars, pcmVars, devVars, coreVars>>
    /\ UNCHANGED <<queue, unlinked, fillVars>>

\* The switch of katana_sync_urb_complete: a packet that is accepted updates
\* the feedback fields under the lock, a cancelled URB ends the handler, every
\* other case goes on to the resubmission.
SyncFeedback ==
    /\ cb.pc = "feedback" /\ cb.urb = SyncUrb
    /\ LET accepted == cb.status = "ok" /\ FeedbackAccepted(cb.pkt, cfg.rate)
       IN  /\ accepted => LockFree
           /\ fb' = IF accepted THEN FeedbackUpdate(fb, cb.pkt) ELSE fb
    /\ cb' = IF CancelStatus(cb.status) THEN NoCb ELSE [cb EXCEPT !.pc = "recheck"]
    /\ UNCHANGED <<gateVars, callVars, pcmVars, devVars, coreVars>>
    /\ UNCHANGED <<queue, unlinked, urb_count, buf, pkt_len, appl_pos, backlog, played, drained, fills>>

\* if (data->stream_started && data->running), read without the lock
SyncResubmitCheck ==
    /\ cb.pc = "recheck" /\ cb.urb = SyncUrb
    /\ cb' = IF stream_started # 0 /\ running # 0
               THEN [cb EXCEPT !.pc = "submit"] ELSE NoCb
    /\ UNCHANGED <<gateVars, callVars, pcmVars, devVars, coreVars>>
    /\ UNCHANGED <<queue, unlinked, fillVars>>

\* usb_submit_urb(urb) of katana_sync_urb_complete. sub: it succeeds.
SyncResubmit(sub) ==
    /\ cb.pc = "submit" /\ cb.urb = SyncUrb
    /\ sync_inflight' = IF sub /\ ~Pending(SyncUrb) THEN TRUE ELSE sync_inflight
    /\ cb' = NoCb
    /\ UNCHANGED <<priv, usb_dev_valid, cfg, hw_ptr, last_period_hw_ptr, read_ptr,
                   running, stream_started, urbs, num_urbs, urb_buffer_size,
                   data_inflight, dma_bytes>>
    /\ UNCHANGED <<gateVars, callVars, devVars, coreVars>>
    /\ UNCHANGED <<queue, unlinked, fillVars>>

\* The application writes n frames (snd_pcm_writei moves appl_ptr on); the
\* ring holds at most buffer_size frames that were not copied.
AppWrite(n) ==
    /\ alsa_state \in {"PREPARED", "RUNNING"}
    /\ backlog + n <= cfg.buffer_size
    /\ appl_pos' = (appl_pos + n) % cfg.buffer_size
    /\ backlog' = backlog + n
    /\ UNCHANGED <<gateVars, callVars, pcmVars, devVars, coreVars>>
    /\ UNCHANGED <<usbVars, urb_count, buf, pkt_len, played, drained, fb, fills>>

\* Where the loop of START fails in Spec: at the first data URB, or nowhere.
StartOutcomes == {1, NUM_URBS + 1}

PcmBody ==
    \/ \E a \in {"ok", "ENOMEM", "ENODEV"} : PlaybackOpen(a)
    \/ PlaybackClose
    \/ \E a \in AllocOutcomes : HwParams(a)
    \/ \E altOk \in BOOLEAN : HwFree(altOk)
    \/ FreeAfterFree
    \/ \E altOk \in BOOLEAN, rateOk \in BOOLEAN : Prepare(altOk, rateOk)
    \/ \E ok \in BOOLEAN : TriggerStartBegin(ok)
    \/ \E f \in StartOutcomes : TriggerStart(f)
    \/ TriggerStop
    \/ \E cmd \in {"PAUSE_PUSH", "PAUSE_RELEASE"} : TriggerPause(cmd)
    \/ TriggerOther

Next ==
    \/ \E o \in PcmOps : PcmCall(o)
    \/ \E in \in HwInputs : PcmCallHwParams(in)
    \/ GateStep(Ctl)
    \/ PcmBody
    \/ Disconnect

Spec == Init /\ [][Next]_vars

\* A caller of the gate in SpecGate: any code between katana_enter_operation
\* and katana_exit_operation.
GateCall(t) ==
    /\ card
    /\ EnterFirstCheck(t, "gate")
    /\ UNCHANGED <<gateVars, pcmVars, devVars, coreVars, strVars>>

GateBody(t) ==
    /\ pc[t] = "body"
    /\ op[t] = "gate"
    /\ pc' = [pc EXCEPT ![t] = "exit"]
    /\ ret' = [ret EXCEPT ![t] = "ok"]
    /\ UNCHANGED <<op, chk1, chk2, contrib, late>>
    /\ UNCHANGED <<gateVars, pcmVars, devVars, coreVars, strVars>>

NextGate ==
    \/ \E t \in Threads : GateCall(t) \/ GateStep(t) \/ GateBody(t)
    \/ Disconnect

SpecGate == Init /\ [][NextGate]_vars

\* SpecGateLive: SpecGate in which katana_usb_disconnect, once called, keeps
\* running: it has no loop, its only wait has a timeout, and snd_card_free is
\* taken to return. Nothing makes a caller of the gate go on: an operation
\* may stay in its body for ever.
SpecGateLive == Init /\ [][NextGate]_vars /\ WF_vars(Disconnect)

\* The requests of SpecHw, where katana_pcm_hw_params is called on each of
\* them with no refinement before it: the two ends of the period range and a
\* size that is no multiple of the frame, periods inside and just outside
\* periods_min..periods_max, and for each of these the buffer that is the
\* product and buffers that are not.
GridRates == {48000, 96000}
GridPeriodBytes == {1536, 1540, 6144}
GridPeriods == {1, 2, 8, 9}
GridBufferBytes(pb, n) == {pb * n, 3072, 49152}

HwGrid ==
    UNION { { HwRequest(r, pb, n, bb) : r \in GridRates, bb \in GridBufferBytes(pb, n) } :
              pb \in GridPeriodBytes, n \in GridPeriods }

NextHw ==
    \/ \E o \in {"open", "hw_free", "close"} : PcmCall(o)
    \/ \E in \in HwGrid : HwParamsCall(in)
    \/ GateStep(Ctl)
    \/ \E a \in {"ok", "ENOMEM", "ENODEV"} : PlaybackOpen(a)
    \/ PlaybackClose
    \/ \E a \in AllocOutcomes : HwParams(a)
    \/ \E altOk \in BOOLEAN : HwFree(altOk)
    \/ FreeAfterFree

SpecHw == Init /\ [][NextHw]_vars

\* The request of the streaming specifications: 48 kHz, two periods of 256
\* frames, so that a URB carries 8 packets of 48 frames.
StreamRequest == HwRequest(48000, 1536, 2, 3072)

\* The completion path of the data URBs; sts are the statuses of URBs that
\* were not cancelled, subs the outcomes of usb_submit_urb.
DataHandlers(sts, subs) ==
    \/ \E st \in sts : GiveBackData(st)
    \/ DataCheck
    \/ DataProcess
    \/ \E sub \in subs : DataRefill(sub)

\* The completion path of the sync URB; pkts are the feedback packets.
SyncHandlers(sts, subs, pkts) ==
    \/ \E st \in sts, pkt \in pkts : GiveBackSync(st, pkt)
    \/ SyncCheck
    \/ SyncFeedback
    \/ SyncResubmitCheck
    \/ \E sub \in subs : SyncResubmit(sub)

\* The device reports the nominal 48 frames per millisecond.
NominalPacket == FbPacket(3, 0, 0, 12, 0)

\* SpecStream: a stream is set up and then started, paused, released,
\* stopped and prepared again while its URBs complete, with every status
\* and with submissions that fail; the application writes nothing.
NextStream ==
    \/ \E o \in {"open", "prepare", "START", "STOP", "PAUSE_PUSH", "PAUSE_RELEASE"} : PcmCall(o)
    \/ HwParamsCall(StreamRequest)
    \/ GateStep(Ctl)
    \/ PlaybackOpen("ok")
    \/ HwParams("ok")
    \/ Prepare(TRUE, TRUE)
    \/ \E ok \in BOOLEAN : TriggerStartBegin(ok)
    \/ \E f \in 1..(NUM_URBS + 1) : TriggerStart(f)
    \/ TriggerStop
    \/ \E cmd \in {"PAUSE_PUSH", "PAUSE_RELEASE"} : TriggerPause(cmd)
    \/ DataHandlers(LiveStatuses, BOOLEAN)
    \/ SyncHandlers(LiveStatuses, BOOLEAN, {NominalPacket})

SpecStream == Init /\ [][NextStream]_vars

\* What the application writes at once in SpecFill: four packets, half of
\* what a URB carries.
FillWrites == {192}

\* SpecFill: a stream is started and may be paused and released; every data
\* URB completes with success, every submission succeeds, and the application
\* writes whole packets. No feedback arrives, so that every packet has its
\* nominal place in the buffer.
NextFill ==
    \/ \E o \in {"open", "prepare", "START", "PAUSE_PUSH", "PAUSE_RELEASE"} : PcmCall(o)
    \/ HwParamsCall(StreamRequest)
    \/ GateStep(Ctl)
    \/ PlaybackOpen("ok")
    \/ HwParams("ok")
    \/ Prepare(TRUE, TRUE)
    \/ TriggerStartBegin(TRUE)
    \/ TriggerStart(NUM_URBS + 1)
    \/ \E cmd \in {"PAUSE_PUSH", "PAUSE_RELEASE"} : TriggerPause(cmd)
    \/ DataHandlers({"ok"}, {TRUE})
    \/ \E n \in FillWrites : AppWrite(n)

SpecFill == Init /\ [][NextFill]_vars

\* The feedback packets of SpecFb at 48 kHz, where the accepted estimates
\* are 43 .. 52: the nominal value in 3 and in 4 bytes, the values at both
\* edges of the range and next to them, a packet of 2 bytes, one of 5, and
\* one of 4 bytes with a high byte.
FbPackets ==
    { NominalPacket,
      FbPacket(4, 0, 0, 12, 0),
      FbPacket(3, 0, 160, 10, 0),
      FbPacket(3, 255, 159, 10, 0),
      FbPacket(3, 255, 31, 13, 0),
      FbPacket(3, 0, 32, 13, 0),
      FbPacket(2, 0, 0, 12, 0),
      FbPacket(5, 0, 0, 12, 0),
      FbPacket(4, 0, 0, 12, 1) }

\* SpecFb: a stream is started and its sync URB completes with feedback
\* packets of every kind.
NextFb ==
    \/ \E o \in {"open", "prepare", "START"} : PcmCall(o)
    \/ HwParamsCall(StreamRequest)
    \/ GateStep(Ctl)
    \/ PlaybackOpen("ok")
    \/ HwParams("ok")
    \/ Prepare(TRUE, TRUE)
    \/ TriggerStartBegin(TRUE)
    \/ TriggerStart(NUM_URBS + 1)
    \/ SyncHandlers({"ok", "EPROTO"}, {TRUE}, FbPackets)

SpecFb == Init /\ [][NextFb]_vars

\* The feedback packets of SpecPace: 48.0 and just under 52.5 frames per
\* millisecond, both inside the range at 48 kHz.
PacePackets == {NominalPacket, FbPacket(3, 255, 31, 13, 0)}

\* SpecPace: a stream is started, stopped, prepared and started again while
\* its sync URB brings feedback and its data URBs complete with success; the
\* application writes nothing, so that every refill sets the descriptors
\* and sends silence.
NextPace ==
    \/ \E o \in {"open", "prepare", "START", "STOP"} : PcmCall(o)
    \/ HwParamsCall(StreamRequest)
    \/ GateStep(Ctl)
    \/ PlaybackOpen("ok")
    \/ HwParams("ok")
    \/ Prepare(TRUE, TRUE)
    \/ TriggerStartBegin(TRUE)
    \/ TriggerStart(NUM_URBS + 1)
    \/ TriggerStop
    \/ DataHandlers({"ok"}, {TRUE})
    \/ SyncHandlers({"ok"}, {TRUE}, PacePackets)

SpecPace == Init /\ [][NextPace]_vars

\* The feedback packets of SpecDesc: the estimates at both edges of the
\* accepted range, 43 and 52 frames per millisecond at 48 kHz, 86 and 105 at
\* 96 kHz.
DescPackets ==
    { FbPacket(3, 0, 160, 10, 0),
      FbPacket(3, 255, 31, 13, 0),
      FbPacket(3, 0, 128, 21, 0),
      FbPacket(3, 0, 64, 26, 0) }

\* The configurations of SpecDesc: the smallest buffer at each rate.
DescRequests == {HwRequest(48000, 1536, 2, 3072), HwRequest(96000, 1536, 2, 3072)}

\* SpecDesc: a stream is set up at either rate, started and stopped, and set
\* up again, at the same rate or the other, without a new open; its sync URB
\* brings feedback from the edges of the range and its data URBs complete
\* with success. The application writes nothing.
NextDesc ==
    \/ \E o \in {"open", "prepare", "START", "STOP"} : PcmCall(o)
    \/ \E r \in DescRequests : HwParamsCall(r)
    \/ GateStep(Ctl)
    \/ PlaybackOpen("ok")
    \/ HwParams("ok")
    \/ Prepare(TRUE, TRUE)
    \/ TriggerStartBegin(TRUE)
    \/ TriggerStart(NUM_URBS + 1)
    \/ TriggerStop
    \/ DataHandlers({"ok"}, {TRUE})
    \/ SyncHandlers({"ok"}, {TRUE}, DescPackets)

SpecDesc == Init /\ [][NextDesc]_vars

\* The values SpecVol writes to the control: inside the range, at its ends
\* and next to them, negative, and large enough for the raw value to leave
\* the 16 bits.
VolSteps == {-1, 0, 1, 50, 100, 300, 20480, 20481, 65535, 65536, 100000}

\* SpecVol: the volume control is read for its range and written, with a
\* device of each range and with every outcome of the allocations and of the
\* USB requests.
InitVol == InitDriver /\ \E r \in VolRanges : volume = NoVolume(r)

NextVol ==
    \/ \E present \in BOOLEAN, steps \in VolSteps,
          a1 \in BOOLEAN, a2 \in BOOLEAN, a3 \in BOOLEAN,
          minOk \in BOOLEAN, maxOk \in BOOLEAN, resOk \in BOOLEAN,
          m1 \in BOOLEAN, m2 \in BOOLEAN :
              VolumePut(present, steps, a1, a2, a3, minOk, maxOk, resOk, m1, m2)
    \/ \E present \in BOOLEAN, allocOk \in BOOLEAN,
          minOk \in BOOLEAN, maxOk \in BOOLEAN, resOk \in BOOLEAN :
              VolumeInfo(present, allocOk, minOk, maxOk, resOk)

SpecVol == InitVol /\ [][NextVol]_vars

\* The configurations of SpecRing: the smallest buffer (2 periods of 256
\* frames) at each of the two rates. A URB carries 8 ms: 384 frames at
\* 48 kHz, 768 frames at 96 kHz.
RingRequests == {StreamRequest, HwRequest(96000, 1536, 2, 3072)}

\* What the application writes in SpecRing, in frames
RingWrites == {192, 256}

\* SpecRing: a stream at either rate is started and its data URBs complete
\* with success while the application writes.
NextRing ==
    \/ \E o \in {"open", "prepare", "START"} : PcmCall(o)
    \/ \E r \in RingRequests : HwParamsCall(r)
    \/ GateStep(Ctl)
    \/ PlaybackOpen("ok")
    \/ HwParams("ok")
    \/ Prepare(TRUE, TRUE)
    \/ TriggerStartBegin(TRUE)
    \/ TriggerStart(NUM_URBS + 1)
    \/ DataHandlers({"ok"}, {TRUE})
    \/ \E n \in RingWrites : AppWrite(n)

SpecRing == Init /\ [][NextRing]_vars

\* SpecTeardown: a stream is set up, started and stopped, and freed by
\* hw_free, close or a new hw_params (which may fail in its allocations) at
\* any point the PCM core allows, while its URBs complete or wait with the
\* USB core.
NextTeardown ==
    \/ \E o \in {"open", "prepare", "START", "STOP", "hw_free", "close"} : PcmCall(o)
    \/ HwParamsCall(StreamRequest)
    \/ GateStep(Ctl)
    \/ PlaybackOpen("ok")
    \/ PlaybackClose
    \/ \E a \in {"ok", "pool"} : HwParams(a)
    \/ HwFree(TRUE)
    \/ FreeAfterFree
    \/ Prepare(TRUE, TRUE)
    \/ TriggerStartBegin(TRUE)
    \/ TriggerStart(NUM_URBS + 1)
    \/ TriggerStop
    \/ DataHandlers({"ok", "EPROTO"}, {TRUE})
    \/ SyncHandlers({"ok"}, {TRUE}, {NominalPacket})

SpecTeardown == Init /\ [][NextTeardown]_vars


\* ------------------------------------------------------------ gate claims

\* The call of t got past katana_enter_operation (it returned 0).
Entered(t) == pc[t] \in {"body", "urbs", "exit", "signal"} \/ (pc[t] = "idle" /\ ret[t] = "ok")

\* C1: katana_enter_operation returns 0 only if disconnect_in_progress was
\* clear at both of its reads; a call that read it set has failed with
\* -ENODEV and has left active_operations with no net change.
C1_EnterContract ==
    \A t \in Threads :
        /\ (op[t] = "gate" /\ Entered(t)) => (chk1[t] = 0 /\ chk2[t] = 0)
        /\ (op[t] = "gate" /\ (chk1[t] = 1 \/ chk2[t] = 1)) =>
               (pc[t] = "idle" /\ ret[t] = "ENODEV" /\ contrib[t] = 0)

\* The race the double check closes: clear at the first read, set at the
\* second, the increment undone.
C1_Witness ==
    \E t \in Threads :
        /\ chk1[t] = 0 /\ chk2[t] = 1
        /\ pc[t] = "idle" /\ ret[t] = "ENODEV" /\ contrib[t] = 0

\* C4: katana_usb_disconnect frees the card only after it has set
\* disconnect_in_progress and its step 3 has ended; unless that wait timed
\* out, no caller is inside the gate while snd_card_free runs, and the card
\* is gone only once snd_card_free has returned.
C4_DisconnectOrder ==
    /\ Tearing => /\ disconnect_in_progress = 1
                  /\ wait_result \in {"skipped", "completed", "timeout"}
                  /\ (wait_result # "timeout" => \A t \in Threads : ~InGate(t))
    /\ dpc \in {"invalidate", "read_active", "reinit", "wait"} =>
           (card /\ disconnect_in_progress = 1 /\ wait_result = "none")
    /\ ~card => dpc \in {"reset_flag", "reset_active", "done"}

\* C5: a call that began after disconnect_in_progress was set is never
\* inside the gate, in particular not while snd_card_free runs.
C5_LateCallsStayOut ==
    \A t \in Threads : late[t] => (~InGate(t) /\ (Tearing => pc[t] \notin {"body", "urbs", "exit"}))

\* A late call has been refused while snd_card_free runs.
C5_Witness ==
    /\ Tearing
    /\ \E t \in Threads : late[t] /\ pc[t] = "idle" /\ ret[t] = "ENODEV"

\* C6: when the disconnect began with operations inside the gate, then while
\* it is blocked in its wait with no completion to
\* take, some call is still in flight (inside the gate, about to signal, or
\* still entering): the wait ends with the last exit, never misses its
\* signal, and can run to the timeout only on an operation that stays in.
C6_WaitEndsWithLastExit ==
    (in_at_mark >= 1 /\ dpc = "wait" /\ completion_done = 0) =>
        \E t \in Threads : pc[t] # "idle"

\* ---------------------------------------------------------- stream claims

\* C2: katana_pcm_trigger(STOP) on an open stream returns 0 whatever the
\* disconnect is doing; it never takes the gate (no read of
\* disconnect_in_progress, no change of active_operations).
C2_StopAlwaysAccepted ==
    op[Ctl] = "STOP" =>
        /\ pc[Ctl] \in {"idle", "body"}
        /\ chk1[Ctl] = -1 /\ chk2[Ctl] = -1 /\ contrib[Ctl] = 0
        /\ pc[Ctl] = "idle" => ret[Ctl] = "ok"

\* A stop that began after the flag was set has returned 0 and stopped the
\* stream.
C2_Witness ==
    /\ op[Ctl] = "STOP" /\ pc[Ctl] = "idle" /\ ret[Ctl] = "ok"
    /\ late[Ctl] /\ disconnect_in_progress = 1
    /\ running = 0 /\ data_inflight = {}

\* The operations C3 is about.
RefusedOps == {"open", "hw_params", "prepare", "START", "PAUSE_PUSH", "PAUSE_RELEASE"}

\* The control context leaves where it is, with nothing but -ENODEV done.
FailsWithENODEV ==
    /\ pc'[Ctl] = "idle"
    /\ ret'[Ctl] = "ENODEV"
    /\ UNCHANGED <<pcmVars, devVars>>

\* C3: with disconnect_in_progress set, a call of open, hw_params, prepare
\* or trigger(START / PAUSE_PUSH / PAUSE_RELEASE) fails with -ENODEV at the
\* gate (at its first read of the flag, or at the second if the flag was set
\* in between), and one that finds the session invalid in its body fails
\* with -ENODEV too; in each case no URB is submitted, and the altsetting,
\* the device's rate and every field of the stream are left as they were.
C3_RefusedWithoutEffect ==
    [][ /\ ( /\ pc[Ctl] = "idle"
             /\ callVars' # callVars
             /\ op'[Ctl] \in RefusedOps
             /\ disconnect_in_progress = 1 ) => FailsWithENODEV
        /\ ( /\ pc[Ctl] = "check2"
             /\ pc'[Ctl] # "check2"
             /\ op[Ctl] \in RefusedOps
             /\ disconnect_in_progress = 1 ) => FailsWithENODEV
        /\ ( /\ pc[Ctl] = "body"
             /\ pc'[Ctl] # "body"
             /\ op[Ctl] \in RefusedOps \ {"open"}
             /\ (~priv \/ usb_dev_valid = 0) ) =>
                 (ret'[Ctl] = "ENODEV" /\ UNCHANGED <<pcmVars, devVars>>)
      ]_vars

\* A start on a prepared stream was refused during the disconnect, and no
\* URB is in flight.
C3_Witness ==
    /\ op[Ctl] = "START" /\ pc[Ctl] = "idle" /\ ret[Ctl] = "ENODEV"
    /\ disconnect_in_progress = 1
    /\ alsa_state = "PREPARED"
    /\ running = 0 /\ ~sync_inflight /\ data_inflight = {}

\* C7: step 2 of the disconnect (katana_pcm_invalidate_usb_dev) leaves an
\* open stream's usb_dev_valid at 0.
C7_InvalidatedOnDisconnect ==
    [][ (dpc = "invalidate" /\ dpc' = "read_active" /\ priv) => usb_dev_valid' = 0 ]_vars

\* The standard request of C10.
IsStandardRequest(in) ==
    in.rate = 48000 /\ in.period_bytes = 6144 /\ in.periods = 8 /\ in.buffer_bytes = 49152

HwDone == hw_in.res \notin {"none", "pending"}

\* C10: the request 48000 Hz / 6144-byte periods / 8 periods / 49152 bytes
\* is accepted (it is never answered -EINVAL; on a device that is not
\* disconnecting and with allocations succeeding it is answered 0, and the
\* buffer is then 49152 bytes), a request for 44100 Hz is answered -EINVAL,
\* and so 44100 Hz is never the stored rate, never the rate set on the
\* device, and never the rate of a prepared or running stream, whose
\* altsetting is the one of 48000 or 96000 Hz.
C10_StandardAcceptedUnsupportedRejected ==
    /\ (HwDone /\ IsStandardRequest(hw_in)) =>
           /\ hw_in.res \in {"ok", "ENOMEM", "ENODEV"}
           /\ hw_in.res = "ENODEV" => dpc # "idle"
           /\ (hw_in.res = "ok" /\ alsa_state \in {"SETUP", "PREPARED", "RUNNING", "PAUSED"}) =>
                  (dma_bytes = 49152 /\ cfg.rate = 48000 /\ cfg.period_bytes = 6144)
    /\ (HwDone /\ hw_in.rate = 44100) => hw_in.res = "EINVAL"
    /\ cfg.rate # 44100
    /\ dev_rate # 44100
    /\ alsa_state \in {"PREPARED", "RUNNING", "PAUSED"} =>
           (cfg.rate \in {48000, 96000} /\ altsetting \in {1, 2})
    /\ running = 1 => dev_rate \in {48000, 96000}

\* The 44100 Hz request was refused after the standard one had been
\* accepted, and the standard configuration is still in place.
C10_Witness ==
    /\ hw_in.rate = 44100 /\ hw_in.res = "EINVAL"
    /\ cfg.rate = 48000 /\ cfg.period_bytes = 6144
    /\ dma_bytes = 49152

\* ------------------------------------------------------- hw_params claims

\* The request satisfies the two conditions C8 names.
ProductAndAligned(in) ==
    in.buffer_bytes = in.period_bytes * in.periods /\ in.period_bytes % 6 = 0

PeriodBytesInRange(in) ==
    in.period_bytes >= period_bytes_min /\ in.period_bytes <= period_bytes_max

BufferBytesInRange(in) ==
    /\ in.buffer_bytes >= period_bytes_min * periods_min
    /\ in.buffer_bytes <= period_bytes_max * periods_max

\* katana_pcm_hw_params has answered the request hw_in on a valid device
\* with every allocation succeeding.
HwAnswered == HwDone /\ hw_in.res \in {"ok", "EINVAL"}

C9_RejectionChangesNothing ==
    [][ (InBody("hw_params") /\ pc'[Ctl] # "body" /\ ret'[Ctl] = "EINVAL") =>
            UNCHANGED <<cfg, urbs, num_urbs, urb_buffer_size, sync_inflight,
                        data_inflight, dma_bytes, stream_started>> ]_vars

\* ------------------------------------------------------- streaming claims

\* katana_pcm_trigger(START) is in its loop over the data URBs and leaves it.
StartLoopStep == pc[Ctl] = "urbs" /\ pc'[Ctl] # "urbs"

\* The number of data URBs a step submits.
Submitted == Len(queue') - Len(queue)

\* C11: trigger(START) submits the sync URB in a step of its own, before
\* its loop and with no data URB; START submits data URBs nowhere but in the
\* loop, which submits the URBs 0, 1, 2, .. in that order, each with a buffer
\* that is all zero and with rate / 1000 frames in every packet, and all of
\* them when START succeeds.
C11_StartOrderAndSilence ==
    [][ /\ (InBody("START") /\ pc'[Ctl] = "urbs") =>
               (~sync_inflight /\ sync_inflight' /\ queue' = queue)
        /\ (InBody("START") /\ pc'[Ctl] \notin {"body", "urbs"}) => queue' = queue
        /\ StartLoopStep =>
               /\ Submitted \in 0..num_urbs
               /\ \A i \in 1..Submitted :
                     /\ queue'[Len(queue) + i] = i - 1
                     /\ \A k \in Packets : /\ buf'[i - 1][k] = Silence
                                           /\ pkt_len'[i - 1][k] = cfg.rate \div 1000
               /\ \A i \in 1..Len(queue) : queue'[i] = queue[i]
               /\ ret'[Ctl] = "ok" => Submitted = num_urbs
      ]_vars

\* START has returned 0 with the sync URB and the six data URBs in flight,
\* queued in the order 0 .. 5, and nothing has completed yet.
C11_Witness ==
    /\ op[Ctl] = "START" /\ ret[Ctl] = "ok"
    /\ sync_inflight
    /\ Len(queue) = NUM_URBS
    /\ \A i \in 1..NUM_URBS : queue[i] = i - 1
    /\ \A u \in UrbIds, k \in Packets : buf[u][k] = Silence /\ pkt_len[u][k] = 48
    /\ fills = 0

\* The last call of the control context was a START that failed at a
\* submission.
StartFailed == op[Ctl] = "START" /\ ret[Ctl] = "EUSB"

\* No URB becomes live in the step: nothing is submitted or resubmitted.
NothingSubmitted ==
    /\ sync_inflight' => sync_inflight
    /\ data_inflight' \subseteq data_inflight

\* C12: when a submission of START fails, START returns the error with
\* running = stream_started = 0 and with every URB it had submitted
\* cancelled (none is live any more), and from then until the next call no
\* completion submits a URB again.
C12_FailedStartCancels ==
    [][ /\ (op[Ctl] = "START" /\ ret[Ctl] = "pending" /\ ret'[Ctl] = "EUSB") =>
               /\ running' = 0 /\ stream_started' = 0
               /\ ~sync_inflight' /\ data_inflight' = {}
        /\ (StartFailed /\ StartFailed') => NothingSubmitted
      ]_vars

\* The stream stays paused over the step: PAUSE_PUSH has returned and no
\* PAUSE_RELEASE or STOP has acted.
StaysPaused == alsa_state = "PAUSED" /\ alsa_state' = "PAUSED"

\* The handler of a data URB that completed with success does its
\* accounting in this step: hw_ptr moves by the frames the URB carried.
AccountsCompletion ==
    (cb.pc = "process" /\ cb.status = "ok" /\ cb' # cb) =>
        /\ cb'.pc = "refill"
        /\ hw_ptr' = AdvanceHwPtr(hw_ptr, FramesTransferred(cb.urb), cfg.buffer_size)
        /\ cb'.elapsed = ((hw_ptr' \div cfg.period_size) #
                             (last_period_hw_ptr \div cfg.period_size))

\* C13: between PAUSE_PUSH and PAUSE_RELEASE no URB is submitted or
\* resubmitted, no URB in flight is cancelled and the URBs are not released,
\* and a data URB that completes with success is still accounted for.
C13_PauseSubmitsNothing ==
    [][ StaysPaused =>
            /\ NothingSubmitted
            /\ unlinked' \subseteq unlinked
            /\ urbs' = urbs
            /\ AccountsCompletion
      ]_vars

\* The stream is running and nothing is in progress: no trigger holds the
\* lock and no completion handler is running. A data URB that is not in
\* flight in such a state stays out, since only its own handler submits it
\* again.
RunningAtRest == alsa_state = "RUNNING" /\ running = 1 /\ LockFree /\ cb = NoCb

\* C14: a stream that runs (again, after PAUSE_PUSH and PAUSE_RELEASE) has
\* every data URB on its way: whenever it is at rest all of them are in
\* flight, whatever completed during a pause.
C14_ResumesAfterPause ==
    RunningAtRest => \A u \in DataUrbs : u \in data_inflight

\* The last call of the control context was a STOP, and it has returned.
Stopped == op[Ctl] = "STOP" /\ pc[Ctl] = "idle" /\ ret[Ctl] = "ok"

\* C15: trigger(STOP) leaves running = stream_started = 0 with the sync URB
\* and every data URB cancelled (none is live any more), and from its return
\* until the next call no completion submits a URB again.
C15_StopCancelsAll ==
    [][ /\ (InBody("STOP") /\ ret'[Ctl] = "ok") =>
               /\ running' = 0 /\ stream_started' = 0
               /\ ~sync_inflight' /\ data_inflight' = {}
        /\ (Stopped /\ Stopped') => NothingSubmitted
      ]_vars

\* A step of katana_urb_complete.
DataHandlerStep == cb.urb \in UrbIds /\ cb' # cb

\* The step refills or resubmits: it writes a descriptor or a buffer, moves
\* read_ptr or queues a URB.
Refills ==
    \/ queue' # queue
    \/ data_inflight' # data_inflight
    \/ buf' # buf
    \/ pkt_len' # pkt_len
    \/ read_ptr' # read_ptr

\* C16: katana_urb_complete refills and resubmits only when the URB
\* completed with success and the stream is started and running at that
\* moment; on every other status (cancelled or failed) it submits nothing
\* and leaves hw_ptr and the period mark alone.
C16_ResubmitOnlyOnSuccess ==
    [][ DataHandlerStep =>
            /\ Refills => (cb.status = "ok" /\ stream_started # 0 /\ running # 0)
            /\ cb.status # "ok" =>
                   /\ ~Refills
                   /\ hw_ptr' = hw_ptr
                   /\ last_period_hw_ptr' = last_period_hw_ptr
      ]_vars

\* URB 0 has completed with success on a running stream and is in flight
\* again behind the others; nothing else has completed.
C16_Witness ==
    /\ alsa_state = "RUNNING" /\ running = 1
    /\ cb = NoCb /\ fills = 1
    /\ queue = <<1, 2, 3, 4, 5, 0>>
    /\ data_inflight = UrbIds
    /\ hw_ptr = 384

\* C17: a step of katana_urb_complete writes to no transfer buffer but that
\* of the URB that completed, and to none that is with the USB core.
C17_FillWritesOwnBuffer ==
    [][ DataHandlerStep =>
            \A x \in UrbIds : buf'[x] # buf[x] => (x = cb.urb /\ ~Pending(x))
      ]_vars

\* The refill step of katana_urb_complete resubmits the URB that completed.
Resubmits == cb.pc = "refill" /\ cb.urb \in UrbIds /\ queue' = Append(queue, cb.urb)

\* C18: a data URB that is resubmitted while the application has no frame
\* available carries silence in every packet it transmits.
C18_UnderrunSendsSilence ==
    [][ (Resubmits /\ AvailableFrames = 0) =>
            \A k \in Packets : pkt_len'[cb.urb][k] > 0 => buf'[cb.urb][k] = Silence
      ]_vars

\* What the descriptor loop asks for: the frames of a whole URB.
Requested == SumTo(NominalLens, PACKETS_PER_URB - 1)

\* C19: a data URB that is resubmitted when fewer frames are available than
\* it could carry transmits exactly the available frames as audio of this
\* fill, and silence in every other packet it transmits: nothing that an
\* earlier fill left in a buffer.
C19_PartialFillPadsWithSilence ==
    [][ (Resubmits /\ AvailableFrames > 0 /\ AvailableFrames < Requested) =>
            LET u == cb.urb
                fresh == [k \in Packets |-> IF buf'[u][k] = fills
                                              THEN pkt_len'[u][k] ELSE 0]
            IN  /\ SumTo(fresh, PACKETS_PER_URB - 1) = AvailableFrames
                /\ \A k \in Packets :
                       (pkt_len'[u][k] > 0 /\ buf'[u][k] # fills) => buf'[u][k] = Silence
      ]_vars

\* The little-endian value of the first n bytes of a packet.
RECURSIVE LittleEndian(_, _)
LittleEndian(b, n) == IF n = 0 THEN 0 ELSE b[1] + 256 * LittleEndian(Tail(b), n - 1)

\* The 10.14 value of a packet rounded to whole frames.
RoundedEstimate(pkt) == (LittleEndian(pkt.b, pkt.len) + 8192) \div 16384

\* The packets C20 says are accepted at the stream's rate.
Acceptable(pkt) ==
    /\ pkt.len \in {3, 4}
    /\ RoundedEstimate(pkt) >= (cfg.rate * 9) \div 10000
    /\ RoundedEstimate(pkt) <= (cfg.rate * 11) \div 10000

\* katana_sync_urb_complete handles a packet that arrived with status 0.
FeedbackStep == cb.pc = "feedback" /\ cb.status = "ok" /\ cb' # cb

\* C20: a feedback packet is taken exactly if it has 3 or 4 bytes and its
\* rounded estimate lies in the range for the rate: then the feedback
\* fields hold its value and estimate, the count is one more and the
\* feedback is valid; any other packet leaves all five fields as they were,
\* and the handler goes on to the resubmission as it does after a packet it
\* took.
C20_FeedbackAcceptance ==
    [][ FeedbackStep =>
            /\ cb'.pc = "recheck"
            /\ IF Acceptable(cb.pkt)
                 THEN /\ fb'.value = LittleEndian(cb.pkt.b, cb.pkt.len)
                      /\ fb'.samples = RoundedEstimate(cb.pkt)
                      /\ fb'.count = fb.count + 1
                      /\ fb'.valid = 1
                 ELSE fb' = fb
      ]_vars

\* After a packet was taken, one below the range has been handled: the
\* fields are those of the first, and the handler is at the resubmission.
C20_Witness ==
    /\ cb.pc = "recheck" /\ cb.status = "ok"
    /\ cb.pkt = FbPacket(3, 255, 159, 10, 0)
    /\ fb.value = 786432 /\ fb.samples = 48 /\ fb.count = 1
    /\ fb.average = 48 /\ fb.valid = 1

\* ---------------------------------------------------------- pacing claims

\* C21: the refill sizes the packets of a URB by feedback_average when the
\* feedback is valid and by rate / 1000 otherwise (packet 0 is never cut
\* short by the end of the buffer, and with nothing to copy its length is
\* the size the refill chose).
C21_PacketsSizedByAverage ==
    [][ (Resubmits /\ AvailableFrames = 0) =>
            pkt_len'[cb.urb][0] = IF fb.valid # 0 THEN fb.average
                                  ELSE cfg.rate \div 1000
      ]_vars

\* C22: until a feedback packet has been accepted since the last START, the
\* refill sizes packets at rate / 1000 frames.
C22_NominalUntilFirstFeedback ==
    [][ (Resubmits /\ AvailableFrames = 0 /\ ~fb.since_start) =>
            pkt_len'[cb.urb][0] = cfg.rate \div 1000
      ]_vars

\* ------------------------------------------------------ ring buffer claims

\* C23: while a stream is started, hw_ptr and read_ptr are positions in the
\* ring: 0 <= hw_ptr < buffer_size and 0 <= read_ptr < buffer_size.
C23_PointersInRing ==
    stream_started = 1 =>
        /\ 0 <= hw_ptr /\ hw_ptr < cfg.buffer_size
        /\ 0 <= read_ptr /\ read_ptr < cfg.buffer_size

\* A refill of a data URB on a started, running stream
Drains == cb.pc = "refill" /\ cb.urb \in UrbIds /\ ResubmitData /\ cb' = NoCb

\* C24: every refill copies the frames the application wrote and that were
\* not copied yet, as many as the URB takes and never more than were
\* written, and read_ptr moves on by that number; once everything written
\* is copied, read_ptr is the application's write position.
C24_RingRoundTrip ==
    [][ Drains =>
            /\ backlog - backlog' = Min(SumTo(NominalLens, PACKETS_PER_URB - 1), backlog)
            /\ read_ptr' = (read_ptr + (backlog - backlog')) % cfg.buffer_size
            /\ backlog' >= 0
            /\ (backlog' = 0 => read_ptr' = appl_pos)
      ]_vars

\* The switch of katana_urb_complete handles a completion with status 0.
Advances == cb.pc = "process" /\ cb.urb \in UrbIds /\ cb.status = "ok" /\ cb'.pc = "refill"

\* C25: a successful completion calls snd_pcm_period_elapsed exactly when
\* the frames transferred carry hw_ptr over a multiple of period_size, the
\* end of the buffer included.
C25_PeriodElapsedIffCrossed ==
    [][ Advances =>
            (cb'.elapsed <=>
                (hw_ptr + FramesTransferred(cb.urb)) \div cfg.period_size
                    > hw_ptr \div cfg.period_size)
      ]_vars

\* ---------------------------------------------------------- release claims

\* C26: katana_pcm_playback_close and katana_pcm_hw_free do not pass the
\* gate, always return 0, and leave no URB, sync URB or buffer behind.
C26_CleanupAlwaysSucceeds ==
    op[Ctl] \in {"close", "hw_free"} =>
        /\ contrib[Ctl] = 0 /\ chk1[Ctl] = -1 /\ chk2[Ctl] = -1
        /\ pc[Ctl] \in {"body", "idle"}
        /\ pc[Ctl] = "idle" =>
              /\ ret[Ctl] = "ok"
              /\ urbs = "null" /\ ~sync_inflight /\ data_inflight = {}

\* katana_free_urb_buffers runs on pointers that were freed before.
ReleasesAgain == urbs = "dangling" /\ (urbs' = "null" \/ pc'[Ctl] = "oops")

\* C27: a failure inside katana_alloc_urb_buffers makes hw_params return an
\* error with everything it allocated released, and no later hw_params,
\* hw_free or close releases or uses what was released.
C27_FailedAllocRollsBack ==
    [][ /\ (InBody("hw_params") /\ pc'[Ctl] = "exit" /\ urbs' # "valid") =>
              (ret'[Ctl] # "ok" /\ ~sync_inflight' /\ data_inflight' = {})
        /\ ~ReleasesAgain
      ]_vars

\* C28: while the URBs and buffers of the stream are freed, no URB is with
\* the USB core, cancelled or not, and no completion handler is running:
\* the free path has waited for each of them.
C28_FreedSlotsAreIdle ==
    urbs # "valid" =>
        /\ cb = NoCb
        /\ queue = <<>> /\ unlinked = {}
        /\ ~sync_inflight /\ data_inflight = {}

\* hw_free has freed the URBs of a stream of which one URB had completed
\* since START and the others were still with the USB core.
C28_Witness ==
    /\ op[Ctl] = "hw_free" /\ pc[Ctl] = "idle"
    /\ urbs = "null"
    /\ hw_ptr > 0 /\ fills = 1

\* ------------------------------------------------------- disconnect claims

IncrementsAlone(t) ==
    /\ pc[t] = "inc" /\ pc'[t] = "check2"
    /\ \A u \in Threads \ {t} : op[u] = "none"

\* C30: while disconnect_in_progress is set, no step of an entry attempt
\* raises active_operations above the value it had when the attempt began.
C30_NoIncreaseOnceDisconnecting ==
    [][ \A t \in Threads :
            (disconnect_in_progress = 1 /\ IncrementsAlone(t)) =>
                active_operations' <= active_operations
      ]_vars

\* C31: active_operations is never negative.
C31_CounterNeverNegative == active_operations >= 0

\* katana_sync_urb_complete accepts the packet it was called with.
AcceptsSample == FeedbackStep /\ fb'.count = fb.count + 1

\* C32: the first sample accepted since open becomes feedback_average; every
\* later accepted sample s makes it (7 * feedback_average + s) / 8.
C32_AverageIsSmoothed ==
    [][ AcceptsSample =>
            fb'.average = IF fb.valid = 0
                            THEN RoundedEstimate(cb.pkt)
                            ELSE (7 * fb.average + RoundedEstimate(cb.pkt)) \div 8
      ]_vars

\* Two samples were accepted, 52 and then 48 frames: the average is
\* (7 * 52 + 48) / 8 = 51.
C32_Witness ==
    /\ fb.count = 2 /\ fb.samples = 48 /\ fb.average = 51

\* katana_pcm_prepare returns from its body.
PrepareReturns ==
    /\ op[Ctl] = "prepare" /\ pc[Ctl] = "body" /\ pc'[Ctl] = "exit"

\* C33: a prepare that returns 0 leaves the three cursors and running at 0,
\* altsetting 1 selected at 48000 Hz and altsetting 2 at 96000 Hz, and the
\* rate set on the device; the rate on the device changes only in a prepare
\* that selected the altsetting, and a prepare whose altsetting selection
\* did not take place returns an error.
C33_PrepareResetsAndSelects ==
    [][ PrepareReturns =>
          /\ ret'[Ctl] = "ok" =>
               /\ hw_ptr' = 0 /\ last_period_hw_ptr' = 0 /\ read_ptr' = 0
               /\ running' = 0
               /\ cfg.rate = 48000 => altsetting' = 1
               /\ cfg.rate = 96000 => altsetting' = 2
               /\ cfg.rate \in {48000, 96000}
               /\ dev_rate' = cfg.rate
          /\ dev_rate' # dev_rate =>
               /\ ret'[Ctl] = "ok"
               /\ altsetting' = IF cfg.rate = 48000 THEN 1 ELSE 2
          /\ ret'[Ctl] = "EUSB" /\ altsetting' # (IF cfg.rate = 48000 THEN 1 ELSE 2) =>
               dev_rate' = dev_rate
      ]_vars

\* A prepare at 96000 Hz has succeeded: altsetting 2 is selected and the
\* device runs at 96000 Hz.
C33_Witness ==
    /\ alsa_state = "PREPARED" /\ op[Ctl] = "prepare" /\ ret[Ctl] = "ok"
    /\ priv /\ cfg.rate = 96000 /\ altsetting = 2 /\ dev_rate = 96000
    /\ hw_ptr = 0 /\ last_period_hw_ptr = 0 /\ read_ptr = 0 /\ running = 0

\* The step calls usb_submit_urb and the call succeeds: a URB goes to the
\* USB core.
SubmitsUrb ==
    \/ \E u \in UrbIds : u \in data_inflight' /\ u \notin data_inflight
    \/ sync_inflight' /\ ~sync_inflight

\* data->lock is held at the calls of usb_submit_urb the step makes: START
\* takes it before its switch and releases it when it returns, and the data
\* handler submits between its second spin_lock_irqsave and exit_unlock.
\* The sync handler has released the lock when it is at its resubmission.
HoldsLockAtSubmit ==
    \/ pc[Ctl] = "urbs" \/ pc'[Ctl] = "urbs"
    \/ cb.pc = "refill"

\* C34: data->lock is not held at any call of usb_submit_urb.
C34_NoSubmitUnderLock ==
    [][ SubmitsUrb => ~HoldsLockAtSubmit ]_vars

\* C35: every gated operation that entered the gate leaves it through
\* katana_exit_operation and the others touch no counter, so that
\* active_operations is 0 whenever no operation is in progress and the
\* disconnect has not timed out.
C35_GateBalanced ==
    ((\A t \in Threads : pc[t] = "idle") /\ wait_result # "timeout") =>
        active_operations = 0

\* katana_usb_disconnect has called snd_card_free.
FreeBegun == dpc \in {"freeing", "reset_flag", "reset_active", "done"}

\* C36: unless the wait of the disconnect timed out, no operation on the
\* card being disconnected (its call began before the disconnect did) is in
\* its body once snd_card_free has begun.
C36_NoBodyAfterFree ==
    \A t \in Threads :
        (~late[t] /\ pc[t] \in {"body", "urbs"} /\ wait_result # "timeout") =>
            ~FreeBegun

\* trigger(STOP) has returned 0 and no call has been made since.
StopReturned == op[Ctl] = "STOP" /\ pc[Ctl] = "idle" /\ ret[Ctl] = "ok"

\* C37: once trigger(STOP) has returned, no step of katana_urb_complete
\* changes hw_ptr or last_period_hw_ptr or finds a period elapsed.
C37_NoProgressAfterStop ==
    [][ (StopReturned /\ cb.urb \in UrbIds) =>
            /\ hw_ptr' = hw_ptr
            /\ last_period_hw_ptr' = last_period_hw_ptr
            /\ cb'.elapsed => cb.elapsed
      ]_vars

\* C38: since the cursors were last zeroed, the completions have added to
\* hw_ptr no more frames than the refills have taken from the ring.
C38_NeverAheadOfDrain == played <= drained

\* The refill of a data URB on a started, running stream sets the
\* descriptors of the URB.
SetsDescriptors ==
    cb.pc = "refill" /\ cb.urb \in UrbIds /\ ResubmitData /\ cb'.pc # "refill"

\* C39: after every refill each of the 8 packets lies inside the URB buffer:
\* its offset k * packet_size and its length, which is not negative, end at
\* or before urb_buffer_size.
C39_DescriptorsInBuffer ==
    [][ SetsDescriptors =>
          \A k \in Packets :
              LET fs == FrameSize(cfg.channels, cfg.format)
                  offset == k * (SamplesPerPacket * fs)
              IN  /\ pkt_len'[cb.urb][k] >= 0
                  /\ offset <= urb_buffer_size
                  /\ pkt_len'[cb.urb][k] <= (urb_buffer_size - offset) \div fs
      ]_vars

\* C40: every raw volume katana_volume_put sends to the device lies within
\* [katana_vol_min, katana_vol_max].
C40_SentVolumeInRange ==
    \A i \in 1..Len(volume.sent) :
        /\ volume.katana_vol_min <= volume.sent[i]
        /\ volume.sent[i] <= volume.katana_vol_max

====
